---- MODULE Spec2Model ----
(***************************************************************************)
(* KPI filter evaluation engine of the stock screener: quarter-string      *)
(* parsing, time-window selection, the per-leaf method evaluator, the      *)
(* logic-tree validator and evaluator, and the screening run of the        *)
(* Streamlit entry point (borsdata/ui/ui_main.py).                         *)
(*                                                                         *)
(* Python values are modelled as follows.                                  *)
(*   str        a sequence of one-character strings                        *)
(*   None / ''  for start_quarter / end_quarter: the empty sequence (the   *)
(*              evaluator passes "start_quarter or ''")                    *)
(*   DataFrame  [has_period, rows]; rows is a sequence of observations     *)
(*              [year, period, kpiValue, isnull]                           *)
(*   tree node  [kind, idx, has_type, type, has_children, children]        *)
(***************************************************************************)
EXTENDS Integers, Sequences, FiniteSets, TLC

VARIABLES
    call,                \* arguments of the pure function under check
    ret,                 \* its result
    fpc,                 \* "call" before the function ran, "return" after
    tree,                \* st.session_state['kpi_logic_tree']
    kpi_filter_settings, \* leaf index -> settings, as a sequence (index + 1)
    stock_kpi_data,      \* stock id -> (KPI name -> DataFrame)
    pc,                  \* position of main() in the screening run
    i,                   \* enumerate() position of the stock loop
    final_stock_ids,     \* the pass list being accumulated
    passed_count,
    evaluated,           \* stocks for which evaluate_filter_tree was called
    reports,             \* progress reports (processed, passed) issued
    messages,            \* st.warning / st.error texts issued
    cancel_check         \* value a caller's cancellation probe would return

fnVars == <<call, ret, fpc>>
pipeVars == <<tree, kpi_filter_settings, stock_kpi_data, pc, i, final_stock_ids,
              passed_count, evaluated, reports, messages, cancel_check>>
vars == <<call, ret, fpc, tree, kpi_filter_settings, stock_kpi_data, pc, i,
          final_stock_ids, passed_count, evaluated, reports, messages, cancel_check>>

(***************************************************************************)
(* Python int(str)                                                         *)
(***************************************************************************)
Digits == <<"0", "1", "2", "3", "4", "5", "6", "7", "8", "9">>

IsDigit(c) == \E d \in 1..10 : Digits[d] = c

DigitVal(c) == (CHOOSE d \in 1..10 : Digits[d] = c) - 1

RECURSIVE LStrip(_)
LStrip(s) == IF s # <<>> /\ Head(s) = " " THEN LStrip(Tail(s)) ELSE s

RECURSIVE RStrip(_)
RStrip(s) == IF s # <<>> /\ s[Len(s)] = " " THEN RStrip(SubSeq(s, 1, Len(s) - 1)) ELSE s

\* digits, with single underscores allowed between two digits
DigitBodyOk(s) ==
    /\ s # <<>>
    /\ IsDigit(s[1]) /\ IsDigit(s[Len(s)])
    /\ \A k \in 1..Len(s) : IsDigit(s[k]) \/ s[k] = "_"
    /\ \A k \in 1..(Len(s) - 1) : ~(s[k] = "_" /\ s[k + 1] = "_")

RECURSIVE DigitBodyVal(_, _)
DigitBodyVal(s, acc) ==
    IF s = <<>> THEN acc
    ELSE IF Head(s) = "_" THEN DigitBodyVal(Tail(s), acc)
    ELSE DigitBodyVal(Tail(s), 10 * acc + DigitVal(Head(s)))

\* int(s): surrounding whitespace stripped, an optional sign, then the digits;
\* ok = FALSE stands for ValueError
PyIntBody(negative, body) ==
    IF ~DigitBodyOk(body) THEN [ok |-> FALSE, val |-> 0]
    ELSE [ok |-> TRUE,
          val |-> IF negative THEN 0 - DigitBodyVal(body, 0) ELSE DigitBodyVal(body, 0)]

PyIntStripped(t) ==
    IF t # <<>> /\ t[1] \in {"+", "-"} THEN PyIntBody(t[1] = "-", Tail(t))
    ELSE PyIntBody(FALSE, t)

PyInt(s) == PyIntStripped(RStrip(LStrip(s)))

(***************************************************************************)
(* parse_quarter_string                                                    *)
(***************************************************************************)
NoneNone == [none |-> TRUE, year |-> 0, quarter |-> 0]

YearQuarter(y, q) == [none |-> FALSE, year |-> y, quarter |-> q]

\* lines 9-16: the try block, given the two int() results
ParsedQuarter(year, quarter) ==
    IF ~year.ok \/ ~quarter.ok THEN NoneNone                 \* ValueError
    ELSE IF quarter.val \notin {1, 2, 3, 4} THEN NoneNone
    ELSE YearQuarter(year.val, quarter.val)

parse_quarter_string(quarter_str) ==
    IF quarter_str = <<>> \/ Len(quarter_str) # 7 \/ quarter_str[5] # "-"
    THEN NoneNone
    ELSE ParsedQuarter(PyInt(SubSeq(quarter_str, 1, 4)), PyInt(<<quarter_str[7]>>))

(***************************************************************************)
(* Optional numbers (None or a number) and DataFrames                       *)
(***************************************************************************)
None_ == [none |-> TRUE, val |-> 0]

Some(n) == [none |-> FALSE, val |-> n]

\* Python "x or 1" on an optional int: None and 0 are falsy
OrOne(x) == IF x.none \/ x.val = 0 THEN 1 ELSE x.val

Obs(y, p, v) == [year |-> y, period |-> p, kpiValue |-> v, isnull |-> FALSE]

NullObs(y, p) == [year |-> y, period |-> p, kpiValue |-> 0, isnull |-> TRUE]

Frame(hp, rs) == [has_period |-> hp, rows |-> rs]

\* pd.DataFrame(): no rows and no columns
EmptyFrame == Frame(FALSE, <<>>)

\* DataFrame.head(n) written for DataFrame.tail(n)
TailRowsAsHead(rows, n) == SubSeq(rows, 1, IF n > Len(rows) THEN Len(rows) ELSE n)

\* DataFrame.tail(n): the last n rows; for n < 0 all rows but the first -n
TailRows(rows, n) ==
    IF n >= 0
    THEN SubSeq(rows, IF Len(rows) - n < 0 THEN 1 ELSE Len(rows) - n + 1, Len(rows))
    ELSE SubSeq(rows, IF 0 - n > Len(rows) THEN Len(rows) + 1 ELSE 1 - n, Len(rows))

RECURSIVE SelectRows(_, _)
\* boolean-mask indexing: the rows whose mask entry is TRUE, in order
SelectRows(rows, mask) ==
    IF rows = <<>> THEN <<>>
    ELSE IF Head(mask) THEN <<Head(rows)>> \o SelectRows(Tail(rows), Tail(mask))
    ELSE SelectRows(Tail(rows), Tail(mask))

(***************************************************************************)
(* filter_data_by_time_range, borsdata/filters/filter_engine.py            *)
(***************************************************************************)
LastN == "Last N Quarters"

CustomRange == "Custom Range"

QPositions(s) == {k \in 1..Len(s) : s[k] = "Q"}

RangeBound(year, period, quarterly) ==
    [ok |-> year.ok /\ period.ok, year |-> year.val,
     period |-> IF quarterly THEN Some(period.val) ELSE None_]

\* s.split('Q') around the only 'Q', at position k
SplitBound(s, k) == RangeBound(PyInt(SubSeq(s, 1, k - 1)), PyInt(SubSeq(s, k + 1, Len(s))), TRUE)

\* one bound of line 49 / 50: "map(int, s.split('Q')) if 'Q' in s else (int(s), None)",
\* unpacked into two names; ok = FALSE stands for the exception the try catches
ParseRangeBound(s) ==
    IF QPositions(s) = {} THEN RangeBound(PyInt(s), [ok |-> TRUE, val |-> 0], FALSE)
    ELSE IF Cardinality(QPositions(s)) # 1 THEN [ok |-> FALSE, year |-> 0, period |-> None_]
    ELSE SplitBound(s, CHOOSE q \in QPositions(s) : TRUE)

InQuarterRange(r, s, e) ==
    /\ r.year > s.year \/ (r.year = s.year /\ r.period >= s.period.val)
    /\ r.year < e.year \/ (r.year = e.year /\ r.period <= e.period.val)

InYearRange(r, s, e) == r.year >= s.year /\ r.year <= e.year

\* lines 53-63, given the two parsed bounds; a comparison of the year column with
\* None (the bounds after the except clause) is False in every row
CustomRangeRows(kpi_data, s, e) ==
    IF ~(s.ok /\ e.ok) THEN <<>>
    ELSE IF kpi_data.has_period /\ ~s.period.none /\ ~e.period.none
    THEN SelectRows(kpi_data.rows, [k \in 1..Len(kpi_data.rows) |-> InQuarterRange(kpi_data.rows[k], s, e)])
    ELSE SelectRows(kpi_data.rows, [k \in 1..Len(kpi_data.rows) |-> InYearRange(kpi_data.rows[k], s, e)])

filter_data_by_time_range(kpi_data, duration_type, last_n, start_quarter, end_quarter) ==
    IF kpi_data.rows = <<>> THEN kpi_data
    ELSE IF duration_type = LastN
    THEN IF ~last_n.none /\ last_n.val > 0
         THEN Frame(kpi_data.has_period, TailRows(kpi_data.rows, last_n.val))
         ELSE Frame(kpi_data.has_period, <<kpi_data.rows[Len(kpi_data.rows)]>>)
    ELSE IF start_quarter # <<>> /\ end_quarter # <<>>
    THEN Frame(kpi_data.has_period,
               CustomRangeRows(kpi_data, ParseRangeBound(start_quarter), ParseRangeBound(end_quarter)))
    ELSE kpi_data

(***************************************************************************)
(* filter_data_by_time_range, borsdata/filter_engine.py (imported by       *)
(* borsdata/ui.py); raised = TRUE stands for an exception leaving the call *)
(***************************************************************************)
Returned(frame) == [raised |-> FALSE, frame |-> frame]

Raised == [raised |-> TRUE, frame |-> EmptyFrame]

\* pd.DataFrame(filtered_data) if filtered_data else pd.DataFrame()
FilteredFrame(has_period, kept) ==
    IF kept = <<>> THEN Returned(EmptyFrame) ELSE Returned(Frame(has_period, kept))

LegacyInQuarters(r, sq, eq) ==
    \/ sq.year < r.year /\ r.year < eq.year
    \/ sq.year = r.year /\ r.period >= sq.quarter
    \/ eq.year = r.year /\ r.period <= eq.quarter
    \/ sq.year = eq.year /\ eq.year = r.year /\ sq.quarter <= r.period /\ r.period <= eq.quarter

\* lines 48-50 and 55-70 for two 7-character bounds
LegacyQuarterly(kpi_data, sq, eq) ==
    IF sq.none \/ eq.none THEN Returned(kpi_data)
    ELSE IF ~kpi_data.has_period THEN Raised                       \* row['period']: KeyError
    ELSE FilteredFrame(kpi_data.has_period,
             SelectRows(kpi_data.rows, [k \in 1..Len(kpi_data.rows) |-> LegacyInQuarters(kpi_data.rows[k], sq, eq)]))

\* lines 52-54 and 55-70 otherwise
LegacyYearly(kpi_data, sy, ey) ==
    IF ~sy.ok \/ ~ey.ok THEN Raised                                \* int(): ValueError
    ELSE FilteredFrame(kpi_data.has_period,
             SelectRows(kpi_data.rows, [k \in 1..Len(kpi_data.rows) |->
                            sy.val <= kpi_data.rows[k].year /\ kpi_data.rows[k].year <= ey.val]))

\* s[:4]
First4(s) == SubSeq(s, 1, IF Len(s) < 4 THEN Len(s) ELSE 4)

legacy_filter_data_by_time_range(kpi_data, duration_type, last_n, start_quarter, end_quarter) ==
    IF kpi_data.rows = <<>> THEN Returned(kpi_data)
    ELSE IF duration_type = LastN
    THEN IF ~last_n.none /\ last_n.val > 0
         THEN Returned(Frame(kpi_data.has_period, TailRows(kpi_data.rows, last_n.val)))
         ELSE Returned(Frame(kpi_data.has_period, TailRows(kpi_data.rows, 1)))
    ELSE IF duration_type = CustomRange /\ start_quarter # <<>> /\ end_quarter # <<>>
    THEN IF Len(start_quarter) = 7 /\ Len(end_quarter) = 7
         THEN LegacyQuarterly(kpi_data, parse_quarter_string(start_quarter),
                              parse_quarter_string(end_quarter))
         ELSE LegacyYearly(kpi_data, PyInt(First4(start_quarter)), PyInt(First4(end_quarter)))
    ELSE Returned(kpi_data)

(***************************************************************************)
(* evaluate_kpi_filter, borsdata/filters/filter_engine.py                  *)
(* The verdict is "True", "False" or "Raise" (an exception leaves the      *)
(* call).  Absent stands for a key the dict does not have, NoneStr for a   *)
(* None where a string is expected.  KPI values are integers; the percent  *)
(* change of the Relative method is compared exactly (cross-multiplied).   *)
(***************************************************************************)
Absent == "<absent>"

NoneStr == "<None>"

\* dict.get(key) for a string-valued key
GetStr(v) == IF v = Absent THEN NoneStr ELSE v

\* dict.get(key, default)
GetOr(v, default) == IF v = Absent THEN default ELSE v

Values(rows) == [k \in 1..Len(rows) |-> rows[k].kpiValue]

AbsCompare(op, kpi_value, val) ==
    CASE op = ">" -> kpi_value > val
      [] op = ">=" -> kpi_value >= val
      [] op = "<" -> kpi_value < val
      [] op = "<=" -> kpi_value <= val
      [] OTHER -> FALSE

\* all(<comparison> for kpi_value in values_to_check), lines 109-117
AbsoluteVerdict(op, val, values_to_check) ==
    IF Len(values_to_check) = 0 THEN "Continue"
    ELSE IF op \notin {">", ">=", "<", "<="} THEN "False"
    ELSE IF val.none THEN "Raise"                  \* number > None: TypeError
    ELSE IF \A k \in 1..Len(values_to_check) : AbsCompare(op, values_to_check[k], val.val)
    THEN "Continue"
    ELSE "False"

\* lines 99-119: "Continue" when the section does not return
AbsoluteSection(kpi_settings, rows) ==
    AbsoluteVerdict(kpi_settings.abs_operator, kpi_settings.abs_value,
                    IF kpi_settings.duration_type = LastN
                    THEN Values(TailRows(rows, OrOne(kpi_settings.last_n)))
                    ELSE Values(rows))

Abs(x) == IF x < 0 THEN 0 - x ELSE x

\* pct_change <op> val with pct_change = (curr - prev) / abs(prev) * 100, prev # 0
RelCompare(op, curr, prev, val) ==
    CASE op = ">" -> (curr - prev) * 100 > val * Abs(prev)
      [] op = ">=" -> (curr - prev) * 100 >= val * Abs(prev)
      [] op = "<" -> (curr - prev) * 100 < val * Abs(prev)
      [] op = "<=" -> (curr - prev) * 100 <= val * Abs(prev)
      [] op = "=" -> (curr - prev) * 100 = val * Abs(prev)
      [] OTHER -> TRUE

\* the step without the "prev == 0" test
RelativeStepZeroPrev(rel_operator, val, curr, prev) ==
    IF rel_operator \notin {">", ">=", "<", "<=", "="} THEN "Continue"
    ELSE IF val.none THEN "Raise"
    ELSE IF RelCompare(rel_operator, curr, prev, val.val) THEN "Continue"
    ELSE "False"

\* one pass of the loop of lines 127-147
RelativeStep(rel_operator, val, curr, prev) ==
    IF prev = 0 THEN "False"
    ELSE IF rel_operator \notin {">", ">=", "<", "<=", "="} THEN "Continue"
    ELSE IF val.none THEN "Raise"                  \* float > None: TypeError
    ELSE IF RelCompare(rel_operator, curr, prev, val.val) THEN "Continue"
    ELSE "False"

RECURSIVE RelativeLoop(_, _, _, _)
RelativeLoop(rel_operator, val, values, k) ==
    IF k > Len(values) THEN "True"
    ELSE IF RelativeStep(rel_operator, val, values[k], values[k - 1]) # "Continue"
    THEN RelativeStep(rel_operator, val, values[k], values[k - 1])
    ELSE RelativeLoop(rel_operator, val, values, k + 1)

\* lines 121-148
RelativeSection(kpi_settings, rows) ==
    IF Len(rows) < 2 THEN "False"
    ELSE RelativeLoop(GetOr(kpi_settings.rel_operator, ">="), kpi_settings.rel_value,
                      Values(rows), 2)

\* ">=" written for ">"
NonDecreasing(vals) == \A k \in 1..(Len(vals) - 1) : vals[k + 1] >= vals[k]

StrictlyIncreasing(vals) == \A k \in 1..(Len(vals) - 1) : vals[k + 1] > vals[k]

StrictlyDecreasing(vals) == \A k \in 1..(Len(vals) - 1) : vals[k + 1] < vals[k]

BoolStr(b) == IF b THEN "True" ELSE "False"

\* the run alone, without the test of the value that follows it
RunWithoutTurn(vals, m, up) ==
    \E k \in 1..(Len(vals) - m) :
        IF up THEN StrictlyIncreasing(SubSeq(vals, k, k + m - 1))
        ELSE StrictlyDecreasing(SubSeq(vals, k, k + m - 1))

\* lines 176-183 (up = TRUE) and 199-206 (up = FALSE): m periods one way, then a turn
RunThenTurn(vals, m, up) ==
    \E k \in 1..(Len(vals) - m) :
        IF up
        THEN StrictlyIncreasing(SubSeq(vals, k, k + m - 1)) /\ vals[k + m] < vals[k + m - 1]
        ELSE StrictlyDecreasing(SubSeq(vals, k, k + m - 1)) /\ vals[k + m] > vals[k + m - 1]

\* a crossing that must pass beyond zero
ZeroCrossingStrict(vals, up) ==
    \E k \in 1..(Len(vals) - 1) :
        IF up THEN vals[k] > 0 /\ vals[k + 1] < 0
        ELSE vals[k] < 0 /\ vals[k + 1] > 0

\* lines 186-189 (up = TRUE) and 209-212 (up = FALSE)
ZeroCrossing(vals, up) ==
    \E k \in 1..(Len(vals) - 1) :
        IF up THEN vals[k] > 0 /\ vals[k + 1] <= 0
        ELSE vals[k] < 0 /\ vals[k + 1] >= 0

\* lines 170-189 (up = TRUE) and 193-212 (up = FALSE)
TransitionTrend(vals, m, up) ==
    IF ~m.none /\ m.val > 0
    THEN IF Len(vals) < m.val + 1 THEN "False" ELSE BoolStr(RunThenTurn(vals, m.val, up))
    ELSE BoolStr(ZeroCrossing(vals, up))

\* lines 160-212 on the n-window: "Continue" when no branch of the trend type returns
TrendVerdict(trend_type, vals, m) ==
    IF trend_type = "Positive" THEN BoolStr(StrictlyIncreasing(vals))
    ELSE IF trend_type = "Negative" THEN BoolStr(StrictlyDecreasing(vals))
    ELSE IF trend_type = "Positive-to-Negative" THEN TransitionTrend(vals, m, TRUE)
    ELSE IF trend_type = "Negative-to-Positive" THEN TransitionTrend(vals, m, FALSE)
    ELSE "Continue"

\* lines 150-212
TrendSection(kpi_settings, rows) ==
    IF kpi_settings.trend_n.none THEN "Raise"      \* int(None): TypeError
    ELSE IF Len(rows) < kpi_settings.trend_n.val THEN "False"
    ELSE TrendVerdict(GetOr(kpi_settings.trend_type, "Positive"),
                      Values(TailRows(rows, kpi_settings.trend_n.val)),
                      kpi_settings.trend_m)

Before(a, b) == a.year < b.year \/ (a.year = b.year /\ a.period < b.period)

\* sort_values(['year', 'period']).iloc[0] / .iloc[-1] on rows unique by period
FirstRow(rows) == rows[CHOOSE k \in 1..Len(rows) : \A j \in 1..Len(rows) : ~Before(rows[j], rows[k])]

LastRow(rows) == rows[CHOOSE k \in 1..Len(rows) : \A j \in 1..Len(rows) : ~Before(rows[k], rows[j])]

DirectionVerdict(direction, start_value, end_value) ==
    IF direction = "positive" /\ end_value <= start_value THEN "False"
    ELSE IF direction = "negative" /\ end_value >= start_value THEN "False"
    ELSE "True"

\* lines 214-229
DirectionSection(kpi_settings, rows) ==
    IF kpi_settings.direction_enabled /\ Len(rows) >= 2
    THEN DirectionVerdict(GetOr(kpi_settings.direction, "either"),
                          FirstRow(rows).kpiValue, LastRow(rows).kpiValue)
    ELSE "True"

\* lines 120-229, after the Absolute section
AfterAbsolute(kpi_settings, rows) ==
    IF kpi_settings.rel_enabled THEN RelativeSection(kpi_settings, rows)
    ELSE IF kpi_settings.trend_enabled /\ TrendSection(kpi_settings, rows) # "Continue"
    THEN TrendSection(kpi_settings, rows)
    ELSE DirectionSection(kpi_settings, rows)

\* lines 84-229 on the windowed rows
EvaluateWindow(kpi_settings, rows) ==
    IF rows = <<>> THEN "False"
    ELSE IF \E k \in 1..Len(rows) : rows[k].isnull THEN "False"
    ELSE IF kpi_settings.abs_enabled /\ AbsoluteSection(kpi_settings, rows) # "Continue"
    THEN AbsoluteSection(kpi_settings, rows)
    ELSE AfterAbsolute(kpi_settings, rows)

evaluate_kpi_filter(kpi_settings, kpi_data) ==
    EvaluateWindow(kpi_settings,
        filter_data_by_time_range(
            kpi_data,
            IF kpi_settings.trend_enabled THEN LastN ELSE GetOr(kpi_settings.duration_type, LastN),
            Some(OrOne(IF kpi_settings.trend_enabled THEN kpi_settings.trend_n
                       ELSE kpi_settings.last_n)),
            kpi_settings.start_quarter, kpi_settings.end_quarter).rows)

(***************************************************************************)
(* Logic trees: validate_logic_tree (borsdata/filters/kpi_logic.py) and    *)
(* evaluate_filter_tree (borsdata/filters/filter_engine.py)                *)
(***************************************************************************)
\* an int
Leaf(idx) == [kind |-> "int", idx |-> idx, has_type |-> FALSE, type |-> "",
              has_children |-> FALSE, children |-> <<>>]

\* a dict with the keys 'type' and 'children'
Node(type, children) == [kind |-> "dict", idx |-> 0, has_type |-> TRUE, type |-> type,
                         has_children |-> TRUE, children |-> children]

\* a dict without the key 'type'
DictNoType(children) == [kind |-> "dict", idx |-> 0, has_type |-> FALSE, type |-> "",
                         has_children |-> TRUE, children |-> children]

\* a dict without the key 'children'
DictNoChildren(type) == [kind |-> "dict", idx |-> 0, has_type |-> TRUE, type |-> type,
                         has_children |-> FALSE, children |-> <<>>]

\* neither a dict nor an int: None, a str, a list
NotANode == [kind |-> "other", idx |-> 0, has_type |-> FALSE, type |-> "",
             has_children |-> FALSE, children |-> <<>>]

\* the keys of kpi_filter_settings: enumerate() indices of the flat filter list
SettingsKeys(settings) == {k - 1 : k \in 1..Len(settings)}

RECURSIVE validate_logic_tree(_, _)
\* checks the indices among a node's own children only, without descending
validate_children_only(t, settings) ==
    IF t.kind = "int" THEN t.idx \in SettingsKeys(settings)
    ELSE IF t.kind = "dict" /\ t.has_children
    THEN \A k \in 1..Len(t.children) :
             t.children[k].kind = "int" => t.children[k].idx \in SettingsKeys(settings)
    ELSE FALSE

validate_logic_tree(t, settings) ==
    IF t.kind = "int" THEN t.idx \in SettingsKeys(settings)
    ELSE IF t.kind = "dict" /\ t.has_children
    THEN \A k \in 1..Len(t.children) : validate_logic_tree(t.children[k], settings)
    ELSE FALSE

\* stock_kpi_data.get(kpi_name, pd.DataFrame()): a table holds EmptyFrame for a
\* KPI it has no key for (main stores only non-empty frames)
evaluate_leaf(idx, settings, stock_table) ==
    IF idx \notin SettingsKeys(settings) THEN "Raise"      \* KeyError
    ELSE evaluate_kpi_filter(settings[idx + 1], stock_table[settings[idx + 1].kpi_name])

RECURSIVE evaluate_filter_tree(_, _, _)
RECURSIVE AllOf(_, _, _, _)
RECURSIVE AnyOf(_, _, _, _)
RECURSIVE AllOfRest(_, _, _, _, _)
RECURSIVE AnyOfRest(_, _, _, _, _)
\* any() written for all()
AllOfAsAny(children, k, settings, stock_table) == AnyOf(children, k, settings, stock_table)

\* all(evaluate_filter_tree(child, ...) for child in children), from child k on
AllOf(children, k, settings, stock_table) ==
    IF k > Len(children) THEN "True"
    ELSE AllOfRest(evaluate_filter_tree(children[k], settings, stock_table),
                   children, k, settings, stock_table)

\* all() stops at the first child that is not true; an exception leaves the call
AllOfRest(r, children, k, settings, stock_table) ==
    IF r = "True" THEN AllOf(children, k + 1, settings, stock_table) ELSE r

\* any(evaluate_filter_tree(child, ...) for child in children), from child k on
AnyOf(children, k, settings, stock_table) ==
    IF k > Len(children) THEN "False"
    ELSE AnyOfRest(evaluate_filter_tree(children[k], settings, stock_table),
                   children, k, settings, stock_table)

\* any() stops at the first child that is true; an exception leaves the call
AnyOfRest(r, children, k, settings, stock_table) ==
    IF r = "False" THEN AnyOf(children, k + 1, settings, stock_table) ELSE r

\* a node of unknown type combined like an AND node
evaluate_filter_tree_default_and(t, settings, stock_table) ==
    IF t.kind = "int" THEN evaluate_leaf(t.idx, settings, stock_table)
    ELSE IF t.kind = "dict" /\ t.has_type /\ t.has_children
    THEN IF t.type = "OR" THEN AnyOf(t.children, 1, settings, stock_table)
         ELSE AllOf(t.children, 1, settings, stock_table)
    ELSE "False"

evaluate_filter_tree(t, settings, stock_table) ==
    IF t.kind = "int" THEN evaluate_leaf(t.idx, settings, stock_table)
    ELSE IF t.kind = "dict" /\ t.has_type /\ t.has_children
    THEN IF t.type = "AND" THEN AllOf(t.children, 1, settings, stock_table)
         ELSE IF t.type = "OR" THEN AnyOf(t.children, 1, settings, stock_table)
         ELSE "False"
    ELSE "False"

(***************************************************************************)
(* The flat filter list (kpi_filters) and the per-leaf settings main()     *)
(* builds from it, borsdata/ui/ui_main.py lines 125-147                    *)
(***************************************************************************)
\* one entry of kpi_filters with no optional key set
FlatFilter(kpi, method) ==
    [kpi |-> kpi, method |-> method, operator |-> Absent, value |-> None_,
     duration_type |-> Absent, last_n |-> None_, rel_operator |-> Absent,
     rel_value |-> None_, trend_type |-> Absent, trend_n |-> None_, trend_m |-> None_,
     direction |-> Absent, start_quarter |-> <<>>, end_quarter |-> <<>>]

kpi_filter_setting(kf) ==
    [abs_enabled |-> kf.method = "Absolute",
     abs_operator |-> GetStr(kf.operator),
     abs_value |-> kf.value,
     last_n |-> IF GetOr(kf.duration_type, LastN) = LastN THEN kf.last_n ELSE None_,
     rel_enabled |-> kf.method = "Relative",
     rel_operator |-> Absent,
     rel_value |-> kf.rel_value,
     trend_enabled |-> kf.method = "Trend",
     trend_type |-> GetStr(kf.trend_type),
     trend_n |-> kf.trend_n,
     trend_m |-> kf.trend_m,
     direction_enabled |-> kf.method = "Direction",
     direction |-> GetOr(kf.direction, "either"),
     kpi_name |-> kf.kpi,
     duration_type |-> GetOr(kf.duration_type, LastN),
     start_quarter |-> kf.start_quarter,
     end_quarter |-> kf.end_quarter]

BuildSettings(kpi_filters) == [k \in 1..Len(kpi_filters) |-> kpi_filter_setting(kpi_filters[k])]

(***************************************************************************)
(* Inputs                                                                  *)
(***************************************************************************)
KpiNames == <<"A", "B", "C", "D">>

KpiSet == {KpiNames[k] : k \in 1..Len(KpiNames)}

\* leaves of the trees handed to evaluate_filter_tree carry the indices 0..MaxLeaf
MaxLeaf == 2

AbsoluteFilter(kpi, op, value, last_n) ==
    [FlatFilter(kpi, "Absolute") EXCEPT !.operator = op, !.value = Some(value),
                                        !.duration_type = LastN, !.last_n = Some(last_n)]

\* leaf k: the latest value of KPI number k is > 0
TreeSettings == BuildSettings([k \in 1..(MaxLeaf + 1) |-> AbsoluteFilter(KpiNames[k], ">", 0, 1)])

PositiveFrame == Frame(TRUE, <<Obs(2020, 4, 3), Obs(2021, 1, 5)>>)

NegativeFrame == Frame(TRUE, <<Obs(2020, 4, 3), Obs(2021, 1, 0 - 2)>>)

\* every assignment of a passing or failing series to the KPIs of the leaves
VerdictTables ==
    {[n \in KpiSet |-> IF \E k \in 1..(MaxLeaf + 1) : KpiNames[k] = n /\ k \in pass
                       THEN PositiveFrame
                       ELSE IF \E k \in 1..(MaxLeaf + 1) : KpiNames[k] = n
                       THEN NegativeFrame ELSE EmptyFrame] : pass \in SUBSET (1..(MaxLeaf + 1))}

UpTo2(S) == {<<>>} \cup {<<a>> : a \in S} \cup {<<a, b>> : a \in S, b \in S}

Atoms == {Leaf(k) : k \in 0..MaxLeaf} \cup {NotANode}

Trees1 == Atoms \cup {Node(t, c) : t \in {"AND", "OR", "XOR"}, c \in UpTo2(Atoms)}
                \cup {DictNoType(<<Leaf(0)>>), DictNoChildren("AND")}

Trees2 == Trees1 \cup {Node(t, c) : t \in {"AND", "OR"}, c \in UpTo2(Trees1)}

(***************************************************************************)
(* Calls of the pure functions                                             *)
(***************************************************************************)
PipelineIdle ==
    /\ tree = NotANode
    /\ kpi_filter_settings = <<>>
    /\ stock_kpi_data = <<>>
    /\ pc = "idle"
    /\ i = 0
    /\ final_stock_ids = <<>>
    /\ passed_count = 0
    /\ evaluated = <<>>
    /\ reports = <<>>
    /\ messages = <<>>
    /\ cancel_check = FALSE

InitTree ==
    /\ call \in {[fn |-> "evaluate_filter_tree", tree |-> t, stock_table |-> d] :
                    t \in Trees2, d \in VerdictTables}
    /\ ret = "pending"
    /\ fpc = "call"
    /\ PipelineIdle

CallEvaluateFilterTree ==
    /\ fpc = "call"
    /\ call.fn = "evaluate_filter_tree"
    /\ ret' = evaluate_filter_tree(call.tree, TreeSettings, call.stock_table)
    /\ fpc' = "return"
    /\ UNCHANGED <<call, pipeVars>>

NextTree == CallEvaluateFilterTree

SpecTree == InitTree /\ [][NextTree]_vars

(***************************************************************************)
(* Calls of parse_quarter_string                                           *)
(***************************************************************************)
YearTexts ==
    {<<"2", "0", "2", "0">>, <<"1", "9", "9", "9">>, <<"0", "0", "0", "7">>,
     <<"2", "0", "X", "0">>, <<"+", "2", "0", "2">>, <<" ", "2", "0", "2">>,
     <<"2", "_", "2", "0">>, <<"-", "2", "0", "2">>, <<"2", "0", "2", " ">>,
     <<"_", "2", "0", "2">>, <<"2", "0", "2", "Q">>}

QuarterTails ==
    {<<a, b, c>> : a \in {"-", "Q", "_"}, b \in {"Q", "X", "-"},
                   c \in {"0", "1", "2", "3", "4", "5", "9", "Q", " ", "+"}}

\* 7-character strings, their 6-character prefixes, 8-character extensions and ''
QuarterStrings ==
    {<<>>} \cup {y \o t : y \in YearTexts, t \in QuarterTails}
           \cup {SubSeq(y \o t, 1, 6) : y \in YearTexts, t \in QuarterTails}
           \cup {y \o t \o <<"1">> : y \in YearTexts, t \in QuarterTails}

InitParse ==
    /\ call \in {[fn |-> "parse_quarter_string", quarter_str |-> q] : q \in QuarterStrings}
    /\ ret = NoneNone
    /\ fpc = "call"
    /\ PipelineIdle

CallParseQuarterString ==
    /\ fpc = "call"
    /\ call.fn = "parse_quarter_string"
    /\ ret' = parse_quarter_string(call.quarter_str)
    /\ fpc' = "return"
    /\ UNCHANGED <<call, pipeVars>>

NextParse == CallParseQuarterString

SpecParse == InitParse /\ [][NextParse]_vars

(***************************************************************************)
(* Calls of filter_data_by_time_range, both modules                        *)
(***************************************************************************)
\* longest series handed to the window selector
MaxSeriesLen == 3

\* largest last_n tried
MaxLastN == 4

Years == {2019, 2020, 2021}

Quarters == {1, 2, 3, 4}

YearText(y) ==
    CASE y = 2019 -> <<"2", "0", "1", "9">>
      [] y = 2020 -> <<"2", "0", "2", "0">>
      [] y = 2021 -> <<"2", "0", "2", "1">>

\* f"{y}-Q{q}"
QuarterText(y, q) == YearText(y) \o <<"-", "Q", Digits[q + 1]>>

\* a stock's history of one KPI: unique by period, ascending
IsAscending(rows) == \A k \in 1..(Len(rows) - 1) : Before(rows[k], rows[k + 1])

QuarterlyRows(n) ==
    {rows \in [1..n -> {Obs(y, q, 10 * (y - 2019) + q) : y \in Years, q \in Quarters}] :
        IsAscending(rows)}

YearlyRows(n) ==
    {rows \in [1..n -> {Obs(y, 0, y - 2019) : y \in Years}] : IsAscending(rows)}

SeriesFrames ==
    UNION {{Frame(TRUE, rows) : rows \in QuarterlyRows(n)} : n \in 1..MaxSeriesLen}
    \cup UNION {{Frame(FALSE, rows) : rows \in YearlyRows(n)} : n \in 1..MaxSeriesLen}

RangeTexts ==
    {QuarterText(y, q) : y \in Years, q \in Quarters}
    \cup {YearText(2019), YearText(2021),
          YearText(2020) \o <<"Q", "2">>,
          YearText(2020) \o <<"-", "X", "1">>}

LastNArguments == {None_} \cup {Some(n) : n \in (0 - 1)..MaxLastN}

WindowCalls ==
    {[fn |-> "filter_data_by_time_range", kpi_data |-> f, duration_type |-> LastN,
      last_n |-> n, start_quarter |-> <<>>, end_quarter |-> <<>>] :
        f \in SeriesFrames \cup {EmptyFrame}, n \in LastNArguments}
    \cup
    {[fn |-> "filter_data_by_time_range", kpi_data |-> f, duration_type |-> CustomRange,
      last_n |-> None_, start_quarter |-> a, end_quarter |-> b] :
        f \in SeriesFrames, a \in RangeTexts, b \in RangeTexts}

NoFrame == [engine |-> "none", raised |-> FALSE, frame |-> EmptyFrame]

InitWindow ==
    /\ call \in WindowCalls
    /\ ret = NoFrame
    /\ fpc = "call"
    /\ PipelineIdle

\* borsdata/filters/filter_engine.py
CallFilterDataByTimeRange ==
    /\ fpc = "call"
    /\ call.fn = "filter_data_by_time_range"
    /\ ret' = [engine |-> "filters", raised |-> FALSE,
               frame |-> filter_data_by_time_range(call.kpi_data, call.duration_type,
                             call.last_n, call.start_quarter, call.end_quarter)]
    /\ fpc' = "return"
    /\ UNCHANGED <<call, pipeVars>>

WithEngine(engine, r) == [engine |-> engine, raised |-> r.raised, frame |-> r.frame]

\* borsdata/filter_engine.py
CallLegacyFilterDataByTimeRange ==
    /\ fpc = "call"
    /\ call.fn = "filter_data_by_time_range"
    /\ ret' = WithEngine("legacy",
                  legacy_filter_data_by_time_range(call.kpi_data, call.duration_type,
                      call.last_n, call.start_quarter, call.end_quarter))
    /\ fpc' = "return"
    /\ UNCHANGED <<call, pipeVars>>

NextWindow == CallFilterDataByTimeRange \/ CallLegacyFilterDataByTimeRange

SpecWindow == InitWindow /\ [][NextWindow]_vars

(***************************************************************************)
(* The screening run: main(), borsdata/ui/ui_main.py lines 125-209         *)
(***************************************************************************)
\* stocks in the filtered instrument universe
NumStocks == 2

\* "if i % 100 == 0", line 193
ProgressEvery == 100

\* list(filtered_instruments[id_col]), in universe order
StockIds == [k \in 1..NumStocks |-> k]

DirectionFilter(kpi, direction, last_n) ==
    [FlatFilter(kpi, "Direction") EXCEPT !.direction = direction, !.duration_type = LastN,
                                         !.last_n = Some(last_n)]

RelativeFilter(kpi, op, value, last_n) ==
    [FlatFilter(kpi, "Relative") EXCEPT !.rel_operator = op, !.rel_value = Some(value),
                                        !.duration_type = LastN, !.last_n = Some(last_n)]

\* a Trend entry whose trend_n was never set
TrendFilterWithoutN(kpi, trend_type) ==
    [FlatFilter(kpi, "Trend") EXCEPT !.trend_type = trend_type]

\* kpi_filters of a run: three entries, so the leaf indices 0, 1, 2 exist
FilterLists ==
    {<<AbsoluteFilter("A", ">", 0, 1), AbsoluteFilter("B", ">", 0, 1),
       DirectionFilter("C", "positive", 2)>>,
     <<TrendFilterWithoutN("A", "Positive"), AbsoluteFilter("B", ">", 0, 1),
       RelativeFilter("C", ">=", 5, 2)>>}

FrameWithNull == Frame(TRUE, <<Obs(2020, 4, 3), NullObs(2021, 1)>>)

Table(a, b, c) == [n \in KpiSet |-> IF n = "A" THEN a ELSE IF n = "B" THEN b
                                    ELSE IF n = "C" THEN c ELSE EmptyFrame]

\* StockKpiTable of one stock; EmptyFrame: the stock has no rows of that KPI
StockTables ==
    {Table(PositiveFrame, PositiveFrame, PositiveFrame),
     Table(NegativeFrame, PositiveFrame, NegativeFrame),
     Table(EmptyFrame, PositiveFrame, PositiveFrame),
     Table(PositiveFrame, NegativeFrame, FrameWithNull),
     Table(EmptyFrame, EmptyFrame, EmptyFrame)}

\* leaf MaxLeaf + 1 is an index no run has a filter for
SessionAtoms == {Leaf(k) : k \in 0..(MaxLeaf + 1)} \cup {NotANode}

\* st.session_state['kpi_logic_tree']
SessionTrees ==
    SessionAtoms
    \cup {Node(t, c) : t \in {"AND", "OR", "XOR"}, c \in UpTo2(SessionAtoms)}
    \cup {DictNoType(<<Leaf(0)>>), DictNoChildren("AND"),
          Node("AND", <<Leaf(0), Node("OR", <<Leaf(1), Leaf(2)>>)>>),
          Node("AND", <<Leaf(1), Node("OR", <<Leaf(2), Leaf(MaxLeaf + 1)>>)>>),
          Node("OR", <<Leaf(1), Node("XOR", <<Leaf(1)>>)>>),
          Node("OR", <<Node("AND", <<Leaf(1), DictNoChildren("OR")>>), Leaf(1)>>),
          Node("AND", <<Leaf(1), DictNoType(<<Leaf(1)>>)>>),
          Node("OR", <<Leaf(1), Node("AND", <<NotANode>>)>>)}

FunctionsIdle ==
    /\ call = [fn |-> "none"]
    /\ ret = "none"
    /\ fpc = "idle"

Init ==
    /\ tree \in SessionTrees
    /\ kpi_filter_settings \in {BuildSettings(l) : l \in FilterLists}
    /\ stock_kpi_data \in [1..NumStocks -> StockTables]
    /\ pc = "start"
    /\ i = 0
    /\ final_stock_ids = <<>>
    /\ passed_count = 0
    /\ evaluated = <<>>
    /\ reports = <<>>
    /\ messages = <<>>
    /\ cancel_check = FALSE
    /\ FunctionsIdle

\* lines 168-169
WrapLeaf(t) == IF t.kind = "int" THEN Node("AND", <<t>>) ELSE t

\* line 170
RootIsNode(t) == t.kind = "dict" /\ t.has_children

\* lines 170-172 and 206: the tree is not filtered by, every stock is kept
SkipKpiFiltering ==
    /\ pc = "start"
    /\ ~RootIsNode(WrapLeaf(tree))
    /\ messages' = Append(messages, "Invalid KPI logic tree. Skipping KPI filtering.")
    /\ final_stock_ids' = StockIds
    /\ pc' = "done"
    /\ UNCHANGED <<tree, kpi_filter_settings, stock_kpi_data, i, passed_count, evaluated,
                   reports, cancel_check, fnVars>>

\* lines 174-176: st.error, st.stop()
RefuseInvalidTree ==
    /\ pc = "start"
    /\ RootIsNode(WrapLeaf(tree))
    /\ ~validate_logic_tree(WrapLeaf(tree), kpi_filter_settings)
    /\ messages' = Append(messages, "Logic tree validation failed.")
    /\ pc' = "stopped"
    /\ UNCHANGED <<tree, kpi_filter_settings, stock_kpi_data, i, final_stock_ids,
                   passed_count, evaluated, reports, cancel_check, fnVars>>

\* lines 174-181
BeginFiltering ==
    /\ pc = "start"
    /\ RootIsNode(WrapLeaf(tree))
    /\ validate_logic_tree(WrapLeaf(tree), kpi_filter_settings)
    /\ tree' = WrapLeaf(tree)
    /\ final_stock_ids' = <<>>
    /\ passed_count' = 0
    /\ i' = 0
    /\ pc' = "loop"
    /\ UNCHANGED <<kpi_filter_settings, stock_kpi_data, evaluated, reports, messages,
                   cancel_check, fnVars>>

\* the loop body appending the stock whatever the result
RecordEveryStock(stock_id, result) ==
    /\ evaluated' = Append(evaluated, [stock |-> stock_id, result |-> result])
    /\ final_stock_ids' = Append(final_stock_ids, stock_id)
    /\ passed_count' = passed_count + 1
    /\ reports' = reports
    /\ messages' = messages

\* lines 190-199, given the result of evaluate_filter_tree for stock_id
RecordResult(stock_id, result) ==
    /\ evaluated' = Append(evaluated, [stock |-> stock_id, result |-> result])
    /\ final_stock_ids' = IF result = "True" THEN Append(final_stock_ids, stock_id)
                          ELSE final_stock_ids
    /\ passed_count' = IF result = "True" THEN passed_count + 1 ELSE passed_count
    /\ reports' = IF result # "Raise" /\ (i % ProgressEvery = 0 \/ i = NumStocks - 1)
                  THEN Append(reports,
                              [processed |-> i + 1,
                               passed |-> IF result = "True" THEN passed_count + 1
                                          ELSE passed_count])
                  ELSE reports
    /\ messages' = IF result = "Raise" THEN Append(messages, "Error evaluating stock")
                   ELSE messages

\* the loop body without its try/except: an exception ends the run
EvaluateStockUncaught ==
    /\ pc = "loop"
    /\ i < NumStocks
    /\ RecordResult(StockIds[i + 1],
                    evaluate_filter_tree(tree, kpi_filter_settings,
                                         stock_kpi_data[StockIds[i + 1]]))
    /\ i' = i + 1
    /\ pc' = IF evaluate_filter_tree(tree, kpi_filter_settings,
                                     stock_kpi_data[StockIds[i + 1]]) = "Raise"
             THEN "stopped" ELSE pc
    /\ UNCHANGED <<tree, kpi_filter_settings, stock_kpi_data, cancel_check, fnVars>>

\* one pass of the loop of lines 182-199
EvaluateStock ==
    /\ pc = "loop"
    /\ i < NumStocks
    /\ RecordResult(StockIds[i + 1],
                    evaluate_filter_tree(tree, kpi_filter_settings,
                                         stock_kpi_data[StockIds[i + 1]]))
    /\ i' = i + 1
    /\ UNCHANGED <<tree, kpi_filter_settings, stock_kpi_data, pc, cancel_check, fnVars>>

\* lines 200-209: the loop is over, the instruments are cut down to final_stock_ids
FinishFiltering ==
    /\ pc = "loop"
    /\ i = NumStocks
    /\ pc' = "done"
    /\ UNCHANGED <<tree, kpi_filter_settings, stock_kpi_data, i, final_stock_ids,
                   passed_count, evaluated, reports, messages, cancel_check, fnVars>>

\* the caller's cancellation probe starts to return True; main() has no such
\* parameter and never reads it
SignalCancel ==
    /\ pc \in {"start", "loop"}
    /\ ~cancel_check
    /\ cancel_check' = TRUE
    /\ UNCHANGED <<tree, kpi_filter_settings, stock_kpi_data, pc, i, final_stock_ids,
                   passed_count, evaluated, reports, messages, fnVars>>

Next ==
    \/ SkipKpiFiltering
    \/ RefuseInvalidTree
    \/ BeginFiltering
    \/ EvaluateStock
    \/ FinishFiltering
    \/ SignalCancel

Spec == Init /\ [][Next]_vars

(***************************************************************************)
(* Properties of evaluate_filter_tree, checked under SpecTree              *)
(***************************************************************************)
\* the leaves whose verdict is True for a stock
TrueLeaves(stock_table) ==
    {k \in 0..MaxLeaf : evaluate_leaf(k, TreeSettings, stock_table) = "True"}

RECURSIVE WellFormed(_)
\* int leaves with a filter, dict nodes of type AND or OR
WellFormed(t) ==
    IF t.kind = "int" THEN t.idx \in 0..MaxLeaf
    ELSE /\ t.kind = "dict" /\ t.has_type /\ t.has_children
         /\ t.type \in {"AND", "OR"}
         /\ \A k \in 1..Len(t.children) : WellFormed(t.children[k])

RECURSIVE BooleanValue(_, _)
\* the value of the boolean expression a well-formed tree denotes
BooleanValue(t, true_leaves) ==
    IF t.kind = "int" THEN t.idx \in true_leaves
    ELSE IF t.type = "AND"
    THEN \A k \in 1..Len(t.children) : BooleanValue(t.children[k], true_leaves)
    ELSE \E k \in 1..Len(t.children) : BooleanValue(t.children[k], true_leaves)

AndOfLeafAndOr == Node("AND", <<Leaf(0), Node("OR", <<Leaf(1), Leaf(2)>>)>>)

\* C1: for every well-formed tree and every assignment of leaf verdicts,
\* evaluate_filter_tree returns the value of the boolean expression (AND: all
\* children true, OR: at least one child true); AND(leaf0, OR(leaf1, leaf2)) is
\* true iff leaf0 is true and leaf1 or leaf2 is true.
C1_TreeIsBooleanExpression ==
    (fpc = "return" /\ WellFormed(call.tree)) =>
        /\ ret = BoolStr(BooleanValue(call.tree, TrueLeaves(call.stock_table)))
        /\ call.tree = AndOfLeafAndOr =>
               (ret = "True" <=> /\ 0 \in TrueLeaves(call.stock_table)
                                 /\ \/ 1 \in TrueLeaves(call.stock_table)
                                    \/ 2 \in TrueLeaves(call.stock_table))

\* AND(leaf0, OR(leaf1, leaf2)) evaluated to True with leaf1 false
C1_Witness ==
    /\ fpc = "return"
    /\ call.tree = AndOfLeafAndOr
    /\ ret = "True"
    /\ 1 \notin TrueLeaves(call.stock_table)

\* unknown operator, a dict without 'type' or 'children', neither dict nor int
Malformed(t) ==
    \/ t.kind = "other"
    \/ t.kind = "dict" /\ (~t.has_type \/ ~t.has_children \/ t.type \notin {"AND", "OR"})

\* C4: evaluate_filter_tree returns False for every malformed node, whatever
\* the leaf verdicts and the stock's data are.
C4_MalformedNodeIsFalse ==
    (fpc = "return" /\ Malformed(call.tree)) => ret = "False"

\* a node of unknown type whose two leaves are both true evaluated to False
C4_Witness ==
    /\ fpc = "return"
    /\ call.tree = Node("XOR", <<Leaf(0), Leaf(1)>>)
    /\ {0, 1} \subseteq TrueLeaves(call.stock_table)
    /\ ret = "False"

(***************************************************************************)
(* Properties of the screening run, checked under Spec                     *)
(***************************************************************************)
RECURSIVE ContainsAbsentLeaf(_, _)
\* some leaf of the tree, at any depth, is no key of the settings
ContainsAbsentLeaf(t, settings) ==
    IF t.kind = "int" THEN t.idx \notin SettingsKeys(settings)
    ELSE /\ t.kind = "dict" /\ t.has_children
         /\ \E k \in 1..Len(t.children) : ContainsAbsentLeaf(t.children[k], settings)

\* C2: a tree that contains, at any depth, a leaf index that is no key of the
\* leaf-filter settings fails validate_logic_tree, and the run stops before
\* evaluate_filter_tree is called for any stock: nothing is evaluated and no
\* pass set is produced.
C2_AbsentLeafRefused ==
    ContainsAbsentLeaf(tree, kpi_filter_settings) =>
        /\ ~validate_logic_tree(WrapLeaf(tree), kpi_filter_settings)
        /\ pc \in {"start", "stopped"}
        /\ evaluated = <<>>
        /\ final_stock_ids = <<>>

\* the run stopped on a tree whose absent index sits two levels down
C2_Witness ==
    /\ pc = "stopped"
    /\ tree = Node("AND", <<Leaf(1), Node("OR", <<Leaf(2), Leaf(MaxLeaf + 1)>>)>>)
    /\ messages = <<"Logic tree validation failed.">>

RECURSIVE HasBadNode(_)
\* some node is malformed or carries an unknown operator
HasBadNode(t) ==
    \/ Malformed(t)
    \/ /\ t.kind = "dict" /\ t.has_children
       /\ \E k \in 1..Len(t.children) : HasBadNode(t.children[k])

\* C3, as claimed: a tree with a node of unknown operator or a malformed node
\* ends the run before any per-stock evaluation begins, so no stock is
\* evaluated against such a tree.
C3_BadNodeNeverEvaluated == HasBadNode(tree) => evaluated = <<>>

C6_NoEvaluationAfterCancel == [][cancel_check => evaluated' = evaluated]_vars

Range(seq) == {seq[k] : k \in 1..Len(seq)}

\* C7: data errors are local.  A leaf whose KPI the stock has no rows of is
\* False without raising; the stocks are evaluated one after the other whatever
\* the earlier ones did; a stock is in the pass list iff its own verdict is
\* True, an error excluding only the stock it occurred for; the run never
\* stops once the evaluation has begun and ends having evaluated every stock.
C7_DataErrorsAreLocal ==
    /\ \A st \in 1..NumStocks : \A k \in SettingsKeys(kpi_filter_settings) :
           stock_kpi_data[st][kpi_filter_settings[k + 1].kpi_name] = EmptyFrame
               => evaluate_leaf(k, kpi_filter_settings, stock_kpi_data[st]) = "False"
    /\ \A j \in 1..Len(evaluated) :
           /\ evaluated[j].stock = StockIds[j]
           /\ evaluated[j].result =
                  evaluate_filter_tree(tree, kpi_filter_settings, stock_kpi_data[StockIds[j]])
           /\ evaluated[j].stock \in Range(final_stock_ids) <=> evaluated[j].result = "True"
    /\ pc = "stopped" => evaluated = <<>>
    /\ (pc = "done" /\ RootIsNode(tree)) => Len(evaluated) = NumStocks

\* the first stock raised, the second, which has no rows of the first leaf's
\* KPI, passed and the run is over
C7_Witness ==
    /\ pc = "done"
    /\ Len(evaluated) = NumStocks
    /\ evaluated[1].result = "Raise"
    /\ evaluated[2].result = "True"
    /\ stock_kpi_data[2]["A"] = EmptyFrame
    /\ final_stock_ids = <<2>>

(***************************************************************************)
(* Properties of filter_data_by_time_range, checked under SpecWindow       *)
(***************************************************************************)
Min(a, b) == IF a < b THEN a ELSE b

\* the last k rows, in their order
Suffix(rows, k) == [j \in 1..k |-> rows[Len(rows) - k + j]]

\* C8: for a non-empty series of length L and a Last-N duration the result is
\* the last min(k, L) observations in their original order, k = last_n when
\* last_n > 0 and k = 1 when last_n is unset or <= 0.
C8_LastNIsSuffix ==
    (fpc = "return" /\ call.duration_type = LastN /\ call.kpi_data.rows # <<>>) =>
        /\ ~ret.raised
        /\ ret.frame.rows =
               Suffix(call.kpi_data.rows,
                      Min(IF ~call.last_n.none /\ call.last_n.val > 0
                          THEN call.last_n.val ELSE 1,
                          Len(call.kpi_data.rows)))

\* the last two of three observations were returned
C8_Witness ==
    /\ fpc = "return"
    /\ call.duration_type = LastN
    /\ call.last_n = Some(2)
    /\ Len(call.kpi_data.rows) = 3
    /\ ret.frame.rows = SubSeq(call.kpi_data.rows, 2, 3)

IsQuarterText(s) == \E y \in Years, q \in Quarters : s = QuarterText(y, q)

YearOfText(s) == CHOOSE y \in Years : \E q \in Quarters : s = QuarterText(y, q)

QuarterOfText(s) == CHOOSE q \in Quarters : \E y \in Years : s = QuarterText(y, q)

\* (year, quarter) of the row lies in [start, end], both inclusive
WithinQuarters(r, sy, sq, ey, eq) ==
    /\ r.year > sy \/ (r.year = sy /\ r.period >= sq)
    /\ r.year < ey \/ (r.year = ey /\ r.period <= eq)

\* C9, as claimed: for a quarterly series and a Custom Range with valid quarter
\* bounds start <= end the result is exactly the observations whose (year,
\* quarter) lies in [start, end].
C9_CustomRangeIsExact ==
    (/\ fpc = "return"
     /\ call.duration_type = CustomRange
     /\ call.kpi_data.has_period
     /\ IsQuarterText(call.start_quarter) /\ IsQuarterText(call.end_quarter)
     /\ \/ YearOfText(call.start_quarter) < YearOfText(call.end_quarter)
        \/ /\ YearOfText(call.start_quarter) = YearOfText(call.end_quarter)
           /\ QuarterOfText(call.start_quarter) <= QuarterOfText(call.end_quarter))
    => /\ ~ret.raised
       /\ ret.frame.rows =
              SelectRows(call.kpi_data.rows,
                  [k \in 1..Len(call.kpi_data.rows) |->
                      WithinQuarters(call.kpi_data.rows[k],
                          YearOfText(call.start_quarter), QuarterOfText(call.start_quarter),
                          YearOfText(call.end_quarter), QuarterOfText(call.end_quarter))])

(***************************************************************************)
(* Properties of parse_quarter_string, checked under SpecParse             *)
(***************************************************************************)
\* 'YYYY-Qx': four digits, a hyphen, 'Q', a digit of 1..4
IsQuarterLiteral(s) ==
    /\ Len(s) = 7
    /\ \A k \in 1..4 : IsDigit(s[k])
    /\ s[5] = "-"
    /\ s[6] = "Q"
    /\ s[7] \in {"1", "2", "3", "4"}

FourDigitYear(s) ==
    1000 * DigitVal(s[1]) + 100 * DigitVal(s[2]) + 10 * DigitVal(s[3]) + DigitVal(s[4])

\* C10, as claimed: parse_quarter_string returns (y, q) for every string of the
\* form 'YYYY-Qx' and (None, None) for every other string.
C10_ParsesExactlyQuarterLiterals ==
    fpc = "return" =>
        IF IsQuarterLiteral(call.quarter_str)
        THEN ret = YearQuarter(FourDigitYear(call.quarter_str), DigitVal(call.quarter_str[7]))
        ELSE ret = NoneNone

(***************************************************************************)
(* Custom ranges with bounds that are no quarter or year literal           *)
(***************************************************************************)
\* 'YYYY': four digits
IsYearLiteral(s) == Len(s) = 4 /\ \A k \in 1..4 : IsDigit(s[k])

\* neither 'YYYY-Qx' nor 'YYYY'
Unparseable(s) == ~IsQuarterLiteral(s) /\ ~IsYearLiteral(s)

\* C11, as claimed: for a Custom Range whose start or end bound cannot be
\* parsed, filter_data_by_time_range returns the input series unfiltered; it
\* neither raises nor returns an empty or partial series.
C11_UnparseableBoundsKeepSeries ==
    (/\ fpc = "return"
     /\ call.duration_type = CustomRange
     /\ Unparseable(call.start_quarter) \/ Unparseable(call.end_quarter))
    => /\ ~ret.raised
       /\ ret.frame = call.kpi_data

(***************************************************************************)
(* evaluate_kpi_filter, borsdata/filter_engine.py (imported by             *)
(* borsdata/ui.py): the same sections as above without the isnull() check  *)
(* of the window.  A missing value reaches the sections as NaN, and every  *)
(* ordered or equality comparison with NaN is False.                       *)
(***************************************************************************)
NanGt(a, b) == ~a.isnull /\ ~b.isnull /\ a.kpiValue > b.kpiValue

NanLt(a, b) == ~a.isnull /\ ~b.isnull /\ a.kpiValue < b.kpiValue

NanLe(a, b) == ~a.isnull /\ ~b.isnull /\ a.kpiValue <= b.kpiValue

\* all(<comparison> for kpi_value in values_to_check), lines 111-119
LegacyAbsoluteVerdict(op, val, rows_to_check) ==
    IF Len(rows_to_check) = 0 THEN "Continue"
    ELSE IF op \notin {">", ">=", "<", "<="} THEN "False"
    ELSE IF val.none THEN "Raise"
    ELSE IF \A k \in 1..Len(rows_to_check) :
                /\ ~rows_to_check[k].isnull
                /\ AbsCompare(op, rows_to_check[k].kpiValue, val.val)
    THEN "Continue"
    ELSE "False"

\* lines 101-121
LegacyAbsoluteSection(kpi_settings, rows) ==
    LegacyAbsoluteVerdict(kpi_settings.abs_operator, kpi_settings.abs_value,
                          IF kpi_settings.duration_type = LastN
                          THEN TailRows(rows, OrOne(kpi_settings.last_n))
                          ELSE rows)

\* one pass of the loop of lines 129-149
LegacyRelativeStep(rel_operator, val, curr, prev) ==
    IF ~prev.isnull /\ prev.kpiValue = 0 THEN "False"
    ELSE IF rel_operator \notin {">", ">=", "<", "<=", "="} THEN "Continue"
    ELSE IF val.none THEN "Raise"
    ELSE IF curr.isnull \/ prev.isnull THEN "False"
    ELSE IF RelCompare(rel_operator, curr.kpiValue, prev.kpiValue, val.val) THEN "Continue"
    ELSE "False"

RECURSIVE LegacyRelativeLoop(_, _, _, _)
LegacyRelativeLoop(rel_operator, val, rows, k) ==
    IF k > Len(rows) THEN "True"
    ELSE IF LegacyRelativeStep(rel_operator, val, rows[k], rows[k - 1]) # "Continue"
    THEN LegacyRelativeStep(rel_operator, val, rows[k], rows[k - 1])
    ELSE LegacyRelativeLoop(rel_operator, val, rows, k + 1)

\* lines 123-150
LegacyRelativeSection(kpi_settings, rows) ==
    IF Len(rows) < 2 THEN "False"
    ELSE LegacyRelativeLoop(GetOr(kpi_settings.rel_operator, ">="), kpi_settings.rel_value,
                            rows, 2)

NanIncreasing(rows) == \A k \in 1..(Len(rows) - 1) : NanGt(rows[k + 1], rows[k])

NanDecreasing(rows) == \A k \in 1..(Len(rows) - 1) : NanLt(rows[k + 1], rows[k])

\* lines 178-185 (up = TRUE) and 201-208 (up = FALSE)
LegacyRunThenTurn(rows, m, up) ==
    \E k \in 1..(Len(rows) - m) :
        IF up
        THEN NanIncreasing(SubSeq(rows, k, k + m - 1)) /\ NanLt(rows[k + m], rows[k + m - 1])
        ELSE NanDecreasing(SubSeq(rows, k, k + m - 1)) /\ NanGt(rows[k + m], rows[k + m - 1])

\* lines 188-191 (up = TRUE) and 211-214 (up = FALSE)
LegacyZeroCrossing(rows, up) ==
    \E k \in 1..(Len(rows) - 1) :
        /\ ~rows[k].isnull /\ ~rows[k + 1].isnull
        /\ IF up THEN rows[k].kpiValue > 0 /\ rows[k + 1].kpiValue <= 0
           ELSE rows[k].kpiValue < 0 /\ rows[k + 1].kpiValue >= 0

LegacyTransitionTrend(rows, m, up) ==
    IF ~m.none /\ m.val > 0
    THEN IF Len(rows) < m.val + 1 THEN "False" ELSE BoolStr(LegacyRunThenTurn(rows, m.val, up))
    ELSE BoolStr(LegacyZeroCrossing(rows, up))

LegacyTrendVerdict(trend_type, rows, m) ==
    IF trend_type = "Positive" THEN BoolStr(NanIncreasing(rows))
    ELSE IF trend_type = "Negative" THEN BoolStr(NanDecreasing(rows))
    ELSE IF trend_type = "Positive-to-Negative" THEN LegacyTransitionTrend(rows, m, TRUE)
    ELSE IF trend_type = "Negative-to-Positive" THEN LegacyTransitionTrend(rows, m, FALSE)
    ELSE "Continue"

\* lines 152-214
LegacyTrendSection(kpi_settings, rows) ==
    IF kpi_settings.trend_n.none THEN "Raise"
    ELSE IF Len(rows) < kpi_settings.trend_n.val THEN "False"
    ELSE LegacyTrendVerdict(GetOr(kpi_settings.trend_type, "Positive"),
                            TailRows(rows, kpi_settings.trend_n.val),
                            kpi_settings.trend_m)

\* lines 227-231
LegacyDirectionVerdict(direction, start_row, end_row) ==
    IF direction = "positive" /\ NanLe(end_row, start_row) THEN "False"
    ELSE IF direction = "negative" /\ NanLe(start_row, end_row) THEN "False"
    ELSE "True"

\* lines 216-231
LegacyDirectionSection(kpi_settings, rows) ==
    IF kpi_settings.direction_enabled /\ Len(rows) >= 2
    THEN LegacyDirectionVerdict(GetOr(kpi_settings.direction, "either"),
                                FirstRow(rows), LastRow(rows))
    ELSE "True"

LegacyAfterAbsolute(kpi_settings, rows) ==
    IF kpi_settings.rel_enabled THEN LegacyRelativeSection(kpi_settings, rows)
    ELSE IF kpi_settings.trend_enabled /\ LegacyTrendSection(kpi_settings, rows) # "Continue"
    THEN LegacyTrendSection(kpi_settings, rows)
    ELSE LegacyDirectionSection(kpi_settings, rows)

\* lines 90-231 on the windowed rows
LegacyEvaluateWindow(kpi_settings, rows) ==
    IF rows = <<>> THEN "False"
    ELSE IF kpi_settings.abs_enabled /\ LegacyAbsoluteSection(kpi_settings, rows) # "Continue"
    THEN LegacyAbsoluteSection(kpi_settings, rows)
    ELSE LegacyAfterAbsolute(kpi_settings, rows)

\* the window selector may raise
LegacyAfterWindow(kpi_settings, w) ==
    IF w.raised THEN "Raise" ELSE LegacyEvaluateWindow(kpi_settings, w.frame.rows)

legacy_evaluate_kpi_filter(kpi_settings, kpi_data) ==
    LegacyAfterWindow(kpi_settings,
        legacy_filter_data_by_time_range(
            kpi_data,
            IF kpi_settings.trend_enabled THEN LastN ELSE GetOr(kpi_settings.duration_type, LastN),
            Some(OrOne(IF kpi_settings.trend_enabled THEN kpi_settings.trend_n
                       ELSE kpi_settings.last_n)),
            kpi_settings.start_quarter, kpi_settings.end_quarter))

(***************************************************************************)
(* Calls of evaluate_kpi_filter, both modules                              *)
(***************************************************************************)
\* longest series, largest last_n and largest trend_n of the enumerated calls
MaxWindow == 3

KpiValues == {0 - 1, 0, 1, 2}

\* the k-th quarter from 2019-Q1 on
QuarterObs(k, v) == Obs(2019 + ((k - 1) \div 4), ((k - 1) % 4) + 1, v)

\* a quarterly history with the given values, ascending
Series(vals) == Frame(TRUE, [k \in 1..Len(vals) |-> QuarterObs(k, vals[k])])

\* the same history with the value of row j missing
WithNull(frame, j) ==
    Frame(TRUE, [k \in 1..Len(frame.rows) |->
                    IF k = j THEN NullObs(frame.rows[k].year, frame.rows[k].period)
                    ELSE frame.rows[k]])

ValueSeries == UNION {[1..n -> KpiValues] : n \in 1..MaxWindow}

LeafFrames ==
    {Series(vals) : vals \in ValueSeries}
    \cup {WithNull(Series(vals), j) : vals \in UNION {[1..n -> KpiValues] : n \in 1..3},
                                      j \in 1..3}
    \cup {EmptyFrame}

TrendFilter(kpi, trend_type, n, m, last_n) ==
    [FlatFilter(kpi, "Trend") EXCEPT !.trend_type = trend_type, !.trend_n = Some(n),
                                     !.trend_m = m, !.duration_type = LastN,
                                     !.last_n = Some(last_n)]

\* settings as main() builds them, with the key 'rel_operator' set by the caller
WithRelOperator(settings, op) == [settings EXCEPT !.rel_operator = op]

AbsoluteSettings ==
    {kpi_filter_setting(AbsoluteFilter("A", op, v, n)) :
        op \in {">", ">=", "<", "<=", "=", "!="}, v \in {0, 1}, n \in 1..MaxWindow}

RelativeSettings ==
    {WithRelOperator(kpi_filter_setting(RelativeFilter("A", Absent, v, n)), op) :
        op \in {">", ">=", "<", "<=", "=", Absent}, v \in {0, 50}, n \in 1..MaxWindow}

TrendSettings ==
    {kpi_filter_setting(TrendFilter("A", t, n, m, 1)) :
        t \in {"Positive", "Negative", "Positive-to-Negative", "Negative-to-Positive"},
        n \in 1..MaxWindow, m \in {None_, Some(1), Some(2)}}
    \cup {kpi_filter_setting(TrendFilter("A", t, 2, None_, MaxWindow)) :
            t \in {"Positive", "Negative"}}
    \cup {kpi_filter_setting([TrendFilter("A", t, 2, None_, 1) EXCEPT
                                   !.duration_type = CustomRange,
                                   !.start_quarter = QuarterText(2019, 1),
                                   !.end_quarter = QuarterText(2019, 1)]) :
            t \in {"Positive", "Negative"}}
    \cup {kpi_filter_setting(TrendFilter("A", t, n, Some(0), 1)) :
            t \in {"Positive-to-Negative", "Negative-to-Positive"}, n \in 1..MaxWindow}

DirectionSettings ==
    {kpi_filter_setting(DirectionFilter("A", d, n)) :
        d \in {"positive", "negative", "either"}, n \in 1..MaxWindow}

\* leaves with a parameter the evaluator does not know: a Relative operator
\* '!=', a trend kind that is None (the settings main() builds from an entry
\* without 'trend_type'), an unknown trend kind, settings without the key
\* 'trend_type'
UnrecognisedSettings ==
    {WithRelOperator(kpi_filter_setting(RelativeFilter("A", Absent, v, n)), "!=") :
        v \in {0, 50}, n \in 1..MaxWindow}
    \cup {kpi_filter_setting(TrendFilter("A", t, n, None_, 1)) :
            t \in {Absent, "Sideways"}, n \in 1..MaxWindow}
    \cup {[kpi_filter_setting(TrendFilter("A", Absent, n, None_, 1)) EXCEPT
                !.trend_type = Absent] : n \in 1..MaxWindow}

LeafCall(s, f) == [fn |-> "evaluate_kpi_filter", kpi_settings |-> s, kpi_data |-> f]

\* the worked examples of the four methods
ExampleCalls ==
    {LeafCall(kpi_filter_setting(AbsoluteFilter("A", ">", v, 3)), Series(<<10, 12, 9>>)) :
        v \in {8, 11}}
    \cup {LeafCall(kpi_filter_setting(AbsoluteFilter("A", "=", 5, 2)), Series(<<5, 5>>))}
    \cup {LeafCall(WithRelOperator(kpi_filter_setting(RelativeFilter("A", Absent, 5, 3)), ">="),
                   Series(vals)) : vals \in {<<100, 110, 121>>, <<100, 90, 99>>}}
    \cup {LeafCall(kpi_filter_setting(TrendFilter("A", "Positive", 3, None_, 1)), Series(vals)) :
            vals \in {<<1, 2, 3>>, <<1, 3, 2>>, <<5, 1, 2, 3>>}}
    \cup {LeafCall(kpi_filter_setting(TrendFilter("A", "Positive-to-Negative", 4, Some(2), 1)),
                   Series(vals)) : vals \in {<<1, 2, 1, 0>>, <<1, 1, 2, 2>>}}
    \cup {LeafCall(kpi_filter_setting(DirectionFilter("A", d, 2)), Series(<<5, 5>>)) :
            d \in {"positive", "negative", "either"}}

LeafCalls ==
    {LeafCall(s, f) : s \in AbsoluteSettings \cup RelativeSettings \cup TrendSettings
                             \cup DirectionSettings \cup UnrecognisedSettings,
                      f \in LeafFrames}
    \cup ExampleCalls

NoVerdict == [engine |-> "none", verdict |-> "pending"]

InitLeaf ==
    /\ call \in LeafCalls
    /\ ret = NoVerdict
    /\ fpc = "call"
    /\ PipelineIdle

\* borsdata/filters/filter_engine.py
CallEvaluateKpiFilter ==
    /\ fpc = "call"
    /\ call.fn = "evaluate_kpi_filter"
    /\ ret' = [engine |-> "filters",
               verdict |-> evaluate_kpi_filter(call.kpi_settings, call.kpi_data)]
    /\ fpc' = "return"
    /\ UNCHANGED <<call, pipeVars>>

\* borsdata/filter_engine.py
CallLegacyEvaluateKpiFilter ==
    /\ fpc = "call"
    /\ call.fn = "evaluate_kpi_filter"
    /\ ret' = [engine |-> "legacy",
               verdict |-> legacy_evaluate_kpi_filter(call.kpi_settings, call.kpi_data)]
    /\ fpc' = "return"
    /\ UNCHANGED <<call, pipeVars>>

NextLeaf == CallEvaluateKpiFilter \/ CallLegacyEvaluateKpiFilter

SpecLeaf == InitLeaf /\ [][NextLeaf]_vars

(***************************************************************************)
(* Properties of evaluate_kpi_filter, checked under SpecLeaf               *)
(***************************************************************************)
\* number of observations the leaf looks at: trend_n for a Trend leaf, last_n
\* otherwise, 1 when unset
WindowLength(kpi_settings) ==
    IF kpi_settings.trend_enabled THEN OrOne(kpi_settings.trend_n)
    ELSE OrOne(kpi_settings.last_n)

\* the observations of the window of a Last-N leaf
LeafWindow(kpi_settings, kpi_data) ==
    Suffix(kpi_data.rows, Min(WindowLength(kpi_settings), Len(kpi_data.rows)))

HasMissing(rows) == \E k \in 1..Len(rows) : rows[k].isnull

\* C12, as claimed: for each of the four methods, if any observation in the
\* window selected for the leaf has a missing value, evaluate_kpi_filter
\* returns False.
C12_MissingValueInWindowIsFalse ==
    (fpc = "return" /\ HasMissing(LeafWindow(call.kpi_settings, call.kpi_data)))
        => ret.verdict = "False"

\* C12 for borsdata/filters/filter_engine.py alone
C12_MissingValueInWindowIsFalse_filters ==
    (/\ fpc = "return" /\ ret.engine = "filters"
     /\ HasMissing(LeafWindow(call.kpi_settings, call.kpi_data)))
        => ret.verdict = "False"

\* 'a op b' for the operators the filter dialog offers
Holds(op, a, b) ==
    CASE op = ">" -> a > b
      [] op = ">=" -> a >= b
      [] op = "<" -> a < b
      [] op = "<=" -> a <= b
      [] op = "=" -> a = b

\* C13, as claimed: for every window and every operator in {>, >=, <, <=, =}
\* the Absolute verdict is True iff the window has at least one observation and
\* every value in it satisfies 'value op threshold'.
C13_AbsoluteIsAllOfWindow ==
    (/\ fpc = "return"
     /\ call.kpi_settings.abs_enabled
     /\ call.kpi_settings.abs_operator \in {">", ">=", "<", "<=", "="}
     /\ ~HasMissing(call.kpi_data.rows))
    => (ret.verdict = "True" <=>
           /\ LeafWindow(call.kpi_settings, call.kpi_data) # <<>>
           /\ \A k \in 1..Len(LeafWindow(call.kpi_settings, call.kpi_data)) :
                  Holds(call.kpi_settings.abs_operator,
                        LeafWindow(call.kpi_settings, call.kpi_data)[k].kpiValue,
                        call.kpi_settings.abs_value.val))

\* C13 without the operator '='
C13_AbsoluteIsAllOfWindow_ordered ==
    (/\ fpc = "return"
     /\ call.kpi_settings.abs_enabled
     /\ call.kpi_settings.abs_operator \in {">", ">=", "<", "<="}
     /\ ~HasMissing(call.kpi_data.rows))
    => (ret.verdict = "True" <=>
           /\ LeafWindow(call.kpi_settings, call.kpi_data) # <<>>
           /\ \A k \in 1..Len(LeafWindow(call.kpi_settings, call.kpi_data)) :
                  Holds(call.kpi_settings.abs_operator,
                        LeafWindow(call.kpi_settings, call.kpi_data)[k].kpiValue,
                        call.kpi_settings.abs_value.val))

\* the percent change (curr - prev) / |prev| * 100 of a step satisfies 'change op val',
\* for prev # 0 (both sides multiplied by |prev|)
ChangeHolds(op, curr, prev, val) ==
    Holds(op, (curr - prev) * 100, val * (IF prev < 0 THEN 0 - prev ELSE prev))

\* C14: for every window and operator the Relative verdict is True iff the
\* window has at least 2 observations, no step has a zero previous value and the
\* percent change of every consecutive pair satisfies 'change op threshold';
\* fewer than 2 points or a zero prev at any step yield False.
C14_RelativeIsAllSteps ==
    (/\ fpc = "return"
     /\ call.kpi_settings.rel_enabled
     /\ call.kpi_settings.rel_operator \in {">", ">=", "<", "<=", "="}
     /\ ~HasMissing(call.kpi_data.rows))
    => /\ ret.verdict \in {"True", "False"}
       /\ ret.verdict = "True" <=>
           /\ Len(LeafWindow(call.kpi_settings, call.kpi_data)) >= 2
           /\ \A k \in 2..Len(LeafWindow(call.kpi_settings, call.kpi_data)) :
                  /\ LeafWindow(call.kpi_settings, call.kpi_data)[k - 1].kpiValue # 0
                  /\ ChangeHolds(call.kpi_settings.rel_operator,
                                 LeafWindow(call.kpi_settings, call.kpi_data)[k].kpiValue,
                                 LeafWindow(call.kpi_settings, call.kpi_data)[k - 1].kpiValue,
                                 call.kpi_settings.rel_value.val)

\* [100, 110, 121] with >= 5 passed: both steps are +10 percent
C14_Witness ==
    /\ fpc = "return"
    /\ ret.engine = "filters"
    /\ call.kpi_settings.rel_enabled
    /\ call.kpi_settings.rel_operator = ">="
    /\ call.kpi_data = Series(<<100, 110, 121>>)
    /\ ret.verdict = "True"

\* strictly increasing (up) or strictly decreasing across every consecutive pair
StrictlyMonotone(rows, up) ==
    \A k \in 1..(Len(rows) - 1) :
        IF up THEN rows[k].kpiValue < rows[k + 1].kpiValue
        ELSE rows[k].kpiValue > rows[k + 1].kpiValue

\* C15: for a Trend leaf of kind Positive (Negative) with length n the verdict
\* is True iff the series has at least n observations and its last n values are
\* strictly increasing (decreasing) across every consecutive pair, whatever the
\* leaf's duration settings are; equal neighbours make the verdict False.
C15_MonotoneTrendOverLastN ==
    (/\ fpc = "return"
     /\ call.kpi_settings.trend_enabled
     /\ call.kpi_settings.trend_type \in {"Positive", "Negative"}
     /\ ~HasMissing(call.kpi_data.rows))
    => (ret.verdict = "True" <=>
           /\ Len(call.kpi_data.rows) >= call.kpi_settings.trend_n.val
           /\ StrictlyMonotone(Suffix(call.kpi_data.rows,
                                      Min(call.kpi_settings.trend_n.val,
                                          Len(call.kpi_data.rows))),
                               call.kpi_settings.trend_type = "Positive"))

\* [5, 1, 2, 3] passed a Positive trend of length 3: only the last 3 values count
C15_Witness ==
    /\ fpc = "return"
    /\ ret.engine = "filters"
    /\ call.kpi_settings.trend_enabled
    /\ call.kpi_settings.trend_type = "Positive"
    /\ call.kpi_settings.trend_n = Some(3)
    /\ call.kpi_data = Series(<<5, 1, 2, 3>>)
    /\ ret.verdict = "True"

\* the m rows from offset k on are strictly monotone and the row after them turns
RunAndTurnAt(rows, k, m, up) ==
    /\ StrictlyMonotone(SubSeq(rows, k, k + m - 1), up)
    /\ IF up THEN rows[k + m].kpiValue < rows[k + m - 1].kpiValue
       ELSE rows[k + m].kpiValue > rows[k + m - 1].kpiValue

\* C16: for a Trend leaf of kind Positive-to-Negative (Negative-to-Positive)
\* with m > 0 the verdict is True iff the series has its n observations and
\* there is an offset in the n-window such that the m values starting there are
\* strictly increasing (decreasing) and the value right after that run is lower
\* (higher) than the run's last value; it is False when no such offset exists
\* or when the n-window has fewer than m + 1 values.
C16_RunThenTurnExists ==
    (/\ fpc = "return"
     /\ call.kpi_settings.trend_enabled
     /\ call.kpi_settings.trend_type \in {"Positive-to-Negative", "Negative-to-Positive"}
     /\ ~call.kpi_settings.trend_m.none /\ call.kpi_settings.trend_m.val > 0
     /\ ~HasMissing(call.kpi_data.rows))
    => (ret.verdict = "True" <=>
           /\ Len(call.kpi_data.rows) >= call.kpi_settings.trend_n.val
           /\ \E k \in 1..(call.kpi_settings.trend_n.val - call.kpi_settings.trend_m.val) :
                  RunAndTurnAt(Suffix(call.kpi_data.rows, call.kpi_settings.trend_n.val),
                               k, call.kpi_settings.trend_m.val,
                               call.kpi_settings.trend_type = "Positive-to-Negative"))

\* [1, 2, 1, 0] with n = 4, m = 2 passed: [1, 2] rises and the next value 1 < 2
C16_Witness ==
    /\ fpc = "return"
    /\ ret.engine = "filters"
    /\ call.kpi_settings.trend_type = "Positive-to-Negative"
    /\ call.kpi_settings.trend_n = Some(4)
    /\ call.kpi_settings.trend_m = Some(2)
    /\ call.kpi_data = Series(<<1, 2, 1, 0>>)
    /\ ret.verdict = "True"

\* C17, as claimed: the Direction verdict requires at least 2 observations in
\* the window: with 2 or more, 'positive' is True iff last > first, 'negative'
\* is True iff last < first and 'either' is True; with fewer than 2
\* observations the verdict is not True for any direction.
C17_DirectionNeedsTwoObservations ==
    (/\ fpc = "return"
     /\ call.kpi_settings.direction_enabled
     /\ ~HasMissing(call.kpi_data.rows))
    => IF Len(LeafWindow(call.kpi_settings, call.kpi_data)) >= 2
       THEN ret.verdict = "True" <=>
                CASE call.kpi_settings.direction = "positive" ->
                         LastRow(LeafWindow(call.kpi_settings, call.kpi_data)).kpiValue
                             > FirstRow(LeafWindow(call.kpi_settings, call.kpi_data)).kpiValue
                  [] call.kpi_settings.direction = "negative" ->
                         LastRow(LeafWindow(call.kpi_settings, call.kpi_data)).kpiValue
                             < FirstRow(LeafWindow(call.kpi_settings, call.kpi_data)).kpiValue
                  [] OTHER -> TRUE
       ELSE ret.verdict # "True"

\* C17 for windows of 2 or more observations
C17_DirectionNeedsTwoObservations_atleast2 ==
    (/\ fpc = "return"
     /\ call.kpi_settings.direction_enabled
     /\ ~HasMissing(call.kpi_data.rows)
     /\ Len(LeafWindow(call.kpi_settings, call.kpi_data)) >= 2)
    => (ret.verdict = "True" <=>
            CASE call.kpi_settings.direction = "positive" ->
                     LastRow(LeafWindow(call.kpi_settings, call.kpi_data)).kpiValue
                         > FirstRow(LeafWindow(call.kpi_settings, call.kpi_data)).kpiValue
              [] call.kpi_settings.direction = "negative" ->
                     LastRow(LeafWindow(call.kpi_settings, call.kpi_data)).kpiValue
                         < FirstRow(LeafWindow(call.kpi_settings, call.kpi_data)).kpiValue
              [] OTHER -> TRUE)

(***************************************************************************)
(* convert_groups_to_old_format and build_group_logic_tree,                *)
(* borsdata/filters/kpi_logic.py.  A group is [filters, operator,          *)
(* filter_settings]; filter_settings[k] stands for the entry under the key *)
(* f"{kpi_name}_{k-1}", with methods = <<>> when the key is absent.        *)
(***************************************************************************)
\* one entry of a KPI instance's 'methods' list with no optional key set
MethodConfig(type) ==
    [type |-> type, operator_abs |-> Absent, value |-> None_, duration_type |-> Absent,
     last_n |-> None_, start_quarter |-> <<>>, end_quarter |-> <<>>,
     rel_operator |-> Absent, rel_value |-> None_, trend_type |-> Absent,
     trend_n |-> None_, trend_m |-> None_, direction |-> Absent]

KpiSettings(methods, method_operator) ==
    [methods |-> methods, method_operator |-> method_operator]

Group(filters, operator, filter_settings) ==
    [filters |-> filters, operator |-> operator, filter_settings |-> filter_settings]

\* lines 12-74: the flat-list entry of one method
old_filter(kpi_name, group_idx, group_operator, method_idx, method_operator, mc) ==
    [kpi |-> kpi_name,
     method |-> GetOr(mc.type, "Absolute"),
     group_id |-> group_idx,
     group_operator |-> group_operator,
     method_id |-> method_idx,
     method_operator |-> GetOr(method_operator, "AND"),
     operator |-> IF mc.type = "Absolute" THEN mc.operator_abs ELSE Absent,
     value |-> IF mc.type = "Absolute" THEN mc.value ELSE None_,
     duration_type |-> IF mc.type \in {"Absolute", "Relative", "Direction"}
                       THEN mc.duration_type ELSE Absent,
     last_n |-> IF mc.type \in {"Absolute", "Relative", "Direction"} THEN mc.last_n ELSE None_,
     start_quarter |-> IF mc.type \in {"Absolute", "Relative", "Direction"}
                       THEN mc.start_quarter ELSE <<>>,
     end_quarter |-> IF mc.type \in {"Absolute", "Relative", "Direction"}
                     THEN mc.end_quarter ELSE <<>>,
     rel_operator |-> IF mc.type = "Relative" THEN mc.rel_operator ELSE Absent,
     rel_value |-> IF mc.type = "Relative" THEN mc.rel_value ELSE None_,
     direction |-> IF mc.type = "Direction" THEN mc.direction ELSE Absent,
     trend_type |-> IF mc.type = "Trend" THEN mc.trend_type ELSE Absent,
     trend_n |-> IF mc.type = "Trend" THEN mc.trend_n ELSE None_,
     trend_m |-> IF mc.type = "Trend" THEN mc.trend_m ELSE None_]

\* lines 11-75: the entries of one KPI instance
KpiOldFilters(group, group_idx, kpi_idx) ==
    [m \in 1..Len(group.filter_settings[kpi_idx + 1].methods) |->
        old_filter(group.filters[kpi_idx + 1], group_idx, group.operator, m - 1,
                   group.filter_settings[kpi_idx + 1].method_operator,
                   group.filter_settings[kpi_idx + 1].methods[m])]

RECURSIVE GroupOldFilters(_, _, _)
\* lines 7-75: the entries of one group, from KPI position kpi_idx on
GroupOldFilters(group, group_idx, kpi_idx) ==
    IF kpi_idx >= Len(group.filters) THEN <<>>
    ELSE KpiOldFilters(group, group_idx, kpi_idx)
             \o GroupOldFilters(group, group_idx, kpi_idx + 1)

RECURSIVE OldFiltersFrom(_, _)
OldFiltersFrom(filter_groups, group_idx) ==
    IF group_idx >= Len(filter_groups) THEN <<>>
    ELSE GroupOldFilters(filter_groups[group_idx + 1], group_idx, 0)
             \o OldFiltersFrom(filter_groups, group_idx + 1)

convert_groups_to_old_format(filter_groups) == OldFiltersFrom(filter_groups, 0)

\* the entries the inner "for old_idx, old_filter in enumerate(kpi_filters)" loops test
MatchingFilters(kpi_filters, kpi_name, group_idx, method_idx) ==
    {j \in 1..Len(kpi_filters) : /\ kpi_filters[j].kpi = kpi_name
                                 /\ kpi_filters[j].group_id = group_idx
                                 /\ kpi_filters[j].method_id = method_idx}

\* old_idx of the first match, -1 when the loop ends without a break
FirstIndex(matching) ==
    IF matching = {} THEN 0 - 1
    ELSE (CHOOSE j \in matching : \A j2 \in matching : j <= j2) - 1

FindFilter(kpi_filters, kpi_name, group_idx, method_idx) ==
    FirstIndex(MatchingFilters(kpi_filters, kpi_name, group_idx, method_idx))

Found(old_idx) == old_idx >= 0

\* method_indices: the first match of every method of the instance, in method order
MethodIndices(kpi_filters, kpi_name, group_idx, methods) ==
    SelectSeq([m \in 1..Len(methods) |-> FindFilter(kpi_filters, kpi_name, group_idx, m - 1)],
              Found)

Leaves(indices) == [k \in 1..Len(indices) |-> Leaf(indices[k])]

\* lines 93-100
SingleMethodNode(filter_idx, group_idx) ==
    IF Found(filter_idx) THEN Leaf(filter_idx) ELSE Leaf(group_idx)

\* lines 110-117
MethodsNode(method_indices, kpi_settings, group_idx) ==
    IF method_indices # <<>>
    THEN Node(GetOr(kpi_settings.method_operator, "AND"), Leaves(method_indices))
    ELSE Leaf(group_idx)

\* lines 87-117: the node of a group with one KPI
SingleKpiGroupNode(group, group_idx, kpi_filters) ==
    IF Len(group.filter_settings[1].methods) = 1
    THEN SingleMethodNode(FindFilter(kpi_filters, group.filters[1], group_idx, 0), group_idx)
    ELSE MethodsNode(MethodIndices(kpi_filters, group.filters[1], group_idx,
                                   group.filter_settings[1].methods),
                     group.filter_settings[1], group_idx)

\* lines 125-133
WithKpiIndex(acc, filter_idx) ==
    IF Found(filter_idx)
    THEN [acc EXCEPT !.kpi_indices = Append(acc.kpi_indices, filter_idx)]
    ELSE acc

\* lines 143-153: the sub-node is appended to group_nodes and its position there
\* is appended to kpi_indices
WithMethodIndices(acc, method_indices, kpi_settings) ==
    IF method_indices = <<>> THEN acc
    ELSE IF Len(method_indices) = 1
    THEN [acc EXCEPT !.kpi_indices = Append(acc.kpi_indices, method_indices[1])]
    ELSE [group_nodes |-> Append(acc.group_nodes,
                                 Node(GetOr(kpi_settings.method_operator, "AND"),
                                      Leaves(method_indices))),
          kpi_indices |-> Append(acc.kpi_indices, Len(acc.group_nodes))]

\* lines 120-153: one pass of the loop over the KPIs of a group
KpiStep(group, group_idx, kpi_filters, kpi_idx, acc) ==
    IF Len(group.filter_settings[kpi_idx + 1].methods) = 1
    THEN WithKpiIndex(acc, FindFilter(kpi_filters, group.filters[kpi_idx + 1], group_idx, 0))
    ELSE WithMethodIndices(acc,
             MethodIndices(kpi_filters, group.filters[kpi_idx + 1], group_idx,
                           group.filter_settings[kpi_idx + 1].methods),
             group.filter_settings[kpi_idx + 1])

RECURSIVE KpiLoop(_, _, _, _, _)
KpiLoop(group, group_idx, kpi_filters, kpi_idx, acc) ==
    IF kpi_idx >= Len(group.filters) THEN acc
    ELSE KpiLoop(group, group_idx, kpi_filters, kpi_idx + 1,
                 KpiStep(group, group_idx, kpi_filters, kpi_idx, acc))

\* lines 154-163
MultiKpiGroupNode(kpi_indices, group, group_idx) ==
    IF kpi_indices = <<>> THEN Leaf(group_idx)
    ELSE IF Len(kpi_indices) = 1 THEN Leaf(kpi_indices[1])
    ELSE Node(group.operator, Leaves(kpi_indices))

\* line 164 after the loop over the KPIs
AppendGroupNode(acc, group, group_idx) ==
    Append(acc.group_nodes, MultiKpiGroupNode(acc.kpi_indices, group, group_idx))

\* lines 84-164: one pass of the loop over the groups
GroupStep(group, group_idx, kpi_filters, group_nodes) ==
    IF group.filters = <<>> THEN group_nodes
    ELSE IF Len(group.filters) = 1
    THEN Append(group_nodes, SingleKpiGroupNode(group, group_idx, kpi_filters))
    ELSE AppendGroupNode(KpiLoop(group, group_idx, kpi_filters, 0,
                                 [group_nodes |-> group_nodes, kpi_indices |-> <<>>]),
                         group, group_idx)

RECURSIVE GroupLoop(_, _, _, _)
GroupLoop(filter_groups, kpi_filters, group_idx, group_nodes) ==
    IF group_idx >= Len(filter_groups) THEN group_nodes
    ELSE GroupLoop(filter_groups, kpi_filters, group_idx + 1,
                   GroupStep(filter_groups[group_idx + 1], group_idx, kpi_filters, group_nodes))

\* lines 165-171
RootOf(group_nodes, group_relationships) ==
    IF Len(group_nodes) = 1 THEN group_nodes[1]
    ELSE Node(group_relationships, group_nodes)

build_group_logic_tree(filter_groups, kpi_filters, group_relationships) ==
    IF filter_groups = <<>> THEN NotANode
    ELSE RootOf(GroupLoop(filter_groups, kpi_filters, 0, <<>>), group_relationships)

(***************************************************************************)
(* Calls of the tree builder: main(), borsdata/ui/ui_main.py lines 91-98   *)
(***************************************************************************)
\* most KPI instances in one group
MaxKpis == 2

\* a KPI instance: its name and its settings, with up to two methods; the
\* instances named "A" combine their methods with OR, the others with AND
KpiInstances ==
    {[name |-> n,
      settings |-> KpiSettings(ms, IF n = "A" THEN "OR" ELSE Absent)] :
        n \in {"A", "B"},
        ms \in {<<>>, <<MethodConfig("Absolute")>>,
                <<MethodConfig("Absolute"), MethodConfig("Direction")>>}}

GroupOf(instances, operator) ==
    Group([k \in 1..Len(instances) |-> instances[k].name], operator,
          [k \in 1..Len(instances) |-> instances[k].settings])

FilterGroups ==
    {GroupOf(instances, op) :
        instances \in UNION {[1..n -> KpiInstances] : n \in 0..MaxKpis},
        op \in {"AND", "OR"}}

\* st.session_state['filter_groups']: one or two groups
FilterGroupLists ==
    {<<g>> : g \in FilterGroups} \cup {<<g1, g2>> : g1 \in FilterGroups, g2 \in FilterGroups}

BuildCalls ==
    {[fn |-> "build_group_logic_tree", filter_groups |-> gs, group_relationships |-> r] :
        gs \in FilterGroupLists, r \in {"AND", "OR"}}

NoTree == [kpi_filters |-> <<>>, tree |-> NotANode]

InitBuild ==
    /\ call \in BuildCalls
    /\ ret = NoTree
    /\ fpc = "call"
    /\ PipelineIdle

\* lines 91-98: the flat list, then the tree over it
CallBuildGroupLogicTree ==
    /\ fpc = "call"
    /\ call.fn = "build_group_logic_tree"
    /\ ret' = [kpi_filters |-> convert_groups_to_old_format(call.filter_groups),
               tree |-> build_group_logic_tree(call.filter_groups,
                            convert_groups_to_old_format(call.filter_groups),
                            call.group_relationships)]
    /\ fpc' = "return"
    /\ UNCHANGED <<call, pipeVars>>

NextBuild == CallBuildGroupLogicTree

SpecBuild == InitBuild /\ [][NextBuild]_vars

(***************************************************************************)
(* Properties of the tree builder, checked under SpecBuild                 *)
(***************************************************************************)
RECURSIVE LeafIndices(_)
RECURSIVE ChildLeafIndices(_, _)
\* the leaf indices of a tree, left to right
LeafIndices(t) ==
    IF t.kind = "int" THEN <<t.idx>>
    ELSE IF t.kind = "dict" THEN ChildLeafIndices(t.children, 1)
    ELSE <<>>

ChildLeafIndices(children, k) ==
    IF k > Len(children) THEN <<>>
    ELSE LeafIndices(children[k]) \o ChildLeafIndices(children, k + 1)

\* C18, as claimed: every flat-list entry is referenced by exactly one leaf of
\* the built tree and every leaf index denotes an entry of the flat list, also
\* when a KPI name occurs twice in a group and when an instance has no methods.
C18_LeavesAreTheFlatList ==
    fpc = "return" =>
        /\ Len(LeafIndices(ret.tree)) = Len(ret.kpi_filters)
        /\ Range(LeafIndices(ret.tree)) = {j - 1 : j \in 1..Len(ret.kpi_filters)}

MethodsOf(group, k) == group.filter_settings[k].methods

RECURSIVE EntriesOfKpis(_, _)
\* number of flat-list entries of the first k KPI instances of a group
EntriesOfKpis(group, k) ==
    IF k = 0 THEN 0 ELSE EntriesOfKpis(group, k - 1) + Len(MethodsOf(group, k))

RECURSIVE EntriesOfGroups(_, _)
\* number of flat-list entries of the first g groups
EntriesOfGroups(groups, g) ==
    IF g = 0 THEN 0
    ELSE EntriesOfGroups(groups, g - 1) + EntriesOfKpis(groups[g], Len(groups[g].filters))

\* the node of the k-th KPI instance of the g-th group: its method_operator over
\* the leaf indices of its methods, in order
InstanceNode(groups, g, k) ==
    Node(GetOr(groups[g].filter_settings[k].method_operator, "AND"),
         [m \in 1..Len(MethodsOf(groups[g], k)) |->
             Leaf(EntriesOfGroups(groups, g - 1) + EntriesOfKpis(groups[g], k - 1) + m - 1)])

NonEmptyGroups(groups) == {g \in 1..Len(groups) : groups[g].filters # <<>>}

\* the subtree at child position pos of a node that collapses when it would
\* have one child only
SubtreeAt(t, pos, total) ==
    IF total = 1 THEN t
    ELSE IF t.kind = "dict" /\ pos <= Len(t.children) THEN t.children[pos]
    ELSE NotANode

GroupSubtree(t, groups, g) ==
    SubtreeAt(t, Cardinality({h \in NonEmptyGroups(groups) : h <= g}),
              Cardinality(NonEmptyGroups(groups)))

\* C19, as claimed: every KPI instance with two or more methods becomes, at its
\* own place in the tree, a node whose operator is the instance's
\* method_operator and whose children are the leaf indices of its methods in
\* order, when it is the only KPI of its group and when it is one of several.
C19_MultiMethodInstanceIsNode ==
    fpc = "return" =>
        \A g \in NonEmptyGroups(call.filter_groups) :
            \A k \in 1..Len(call.filter_groups[g].filters) :
                (/\ Len(MethodsOf(call.filter_groups[g], k)) >= 2
                 /\ \A j \in 1..Len(call.filter_groups[g].filters) :
                        MethodsOf(call.filter_groups[g], j) # <<>>)
                => SubtreeAt(GroupSubtree(ret.tree, call.filter_groups, g), k,
                             Len(call.filter_groups[g].filters))
                       = InstanceNode(call.filter_groups, g, k)

\* C19 for the instances that are the only KPI of their group
C19_MultiMethodInstanceIsNode_onlyKpi ==
    fpc = "return" =>
        \A g \in NonEmptyGroups(call.filter_groups) :
            (/\ Len(call.filter_groups[g].filters) = 1
             /\ Len(MethodsOf(call.filter_groups[g], 1)) >= 2
             /\ \A h \in NonEmptyGroups(call.filter_groups) :
                    Len(call.filter_groups[h].filters) = 1)
            => GroupSubtree(ret.tree, call.filter_groups, g)
                   = InstanceNode(call.filter_groups, g, 1)


\* the operator and the number of children of a node
HasShape(t, type, n) == t.kind = "dict" /\ t.type = type /\ Len(t.children) = n

\* the node or leaf of a KPI instance, up to its leaf indices
InstanceShape(t, settings) ==
    IF Len(settings.methods) = 1 THEN t.kind = "int"
    ELSE HasShape(t, GetOr(settings.method_operator, "AND"), Len(settings.methods))

\* the subtree of a group: the node {group.operator, one child per KPI
\* instance}, or the instance's own node or leaf when the group has one KPI
GroupShape(t, group) ==
    IF Len(group.filters) = 1 THEN InstanceShape(t, group.filter_settings[1])
    ELSE /\ HasShape(t, group.operator, Len(group.filters))
         /\ \A k \in 1..Len(group.filters) :
                InstanceShape(t.children[k], group.filter_settings[k])

\* the root: the only group's subtree, or {group_relationships, one subtree per
\* non-empty group in group order}
RootShape(t, groups, group_relationships) ==
    /\ Cardinality(NonEmptyGroups(groups)) >= 2
           => HasShape(t, group_relationships, Cardinality(NonEmptyGroups(groups)))
    /\ \A g \in NonEmptyGroups(groups) :
           GroupShape(GroupSubtree(t, groups, g), groups[g])

EveryInstanceHasMethods(groups) ==
    \A g \in 1..Len(groups) :
        \A k \in 1..Len(groups[g].filters) : MethodsOf(groups[g], k) # <<>>

\* C20, as claimed: with one non-empty group the root is that group's own node
\* or leaf; with two or more the root is the node {group_relationships, one
\* subtree per group in group order}; a group with several KPI instances is the
\* node {group.operator, one child per KPI instance} and a group with one KPI
\* instance collapses to that instance's node or leaf.
C20_RootAndGroupNodes ==
    (fpc = "return" /\ EveryInstanceHasMethods(call.filter_groups))
        => RootShape(ret.tree, call.filter_groups, call.group_relationships)

\* C20 for the configurations whose KPI instances have one method each
C20_RootAndGroupNodes_oneMethod ==
    (/\ fpc = "return"
     /\ \A g \in 1..Len(call.filter_groups) :
            \A k \in 1..Len(call.filter_groups[g].filters) :
                Len(MethodsOf(call.filter_groups[g], k)) = 1)
        => RootShape(ret.tree, call.filter_groups, call.group_relationships)


(***************************************************************************)
(* Worker-pool KPI fetch: BorsdataClient.fetch_kpi_data_for_stocks and     *)
(* fetch_kpi_data_for_stocks_yearly (borsdata/api/borsdata_client.py).     *)
(* ret holds the state of one call: per task the position of its           *)
(* fetch_one, the order in which the fetches completed, and the result of  *)
(* the call.  cancel_check is the value the caller's probe returns.        *)
(***************************************************************************)
\* workers of the pool; the program's pool has 10 (lines 286, 324)
MaxWorkers == 2

\* line 265 / 303: [(stock_id, kpi_id) for stock_id in stock_ids for kpi_id in kpi_ids]
FetchTasks(stock_ids, kpi_ids) ==
    [t \in 1..(Len(stock_ids) * Len(kpi_ids)) |->
        [stock_id |-> stock_ids[((t - 1) \div Len(kpi_ids)) + 1],
         kpi_id |-> kpi_ids[((t - 1) % Len(kpi_ids)) + 1]]]

\* what get_kpi_history can do for one task: a frame with the required
\* columns, an empty frame, a frame without the required columns, an exception
ApiOutcomes == {"rows", "empty", "nocols", "raise"}

\* 'quarter' (line 271) or 'year' (line 309)
ReportType(fn) == IF fn = "fetch_kpi_data_for_stocks" THEN "quarter" ELSE "year"

\* the rows one task returns (line 282 / 320)
TaskRows(fn, task) ==
    [stock_id |-> task.stock_id, kpi_id |-> task.kpi_id, report_type |-> ReportType(fn)]

NoResult == [df |-> FALSE, rows |-> <<>>, raised |-> FALSE]

\* fetch_one without its except clause: the exception leaves fetch_one
fetch_one_result_uncaught(fn, task, outcome) ==
    IF outcome = "rows" THEN [df |-> TRUE, rows |-> <<TaskRows(fn, task)>>, raised |-> FALSE]
    ELSE IF outcome = "raise" THEN [df |-> FALSE, rows |-> <<>>, raised |-> TRUE]
    ELSE NoResult

\* lines 270-285 / 308-323: what fetch_one returns after get_kpi_history
\* answered with the given outcome; the except clause swallows an exception
fetch_one_result(fn, task, outcome) ==
    IF outcome = "rows" THEN [df |-> TRUE, rows |-> <<TaskRows(fn, task)>>, raised |-> FALSE]
    ELSE NoResult

QueuedTask == [pc |-> "queued", requests |-> 0, outcome |-> "none",
               after_cancel |-> FALSE, result |-> NoResult]

FetchStart(n) ==
    [tasks |-> [t \in 1..n |-> QueuedTask], order |-> <<>>,
     raised |-> FALSE, frame |-> <<>>]

RunningTasks(state) ==
    {t \in 1..Len(state.tasks) : state.tasks[t].pc \in {"checked", "inflight"}}

\* executor.map submits the tasks in order; a free worker takes the first
\* task not yet started
NextQueued(state, t) ==
    /\ state.tasks[t].pc = "queued"
    /\ \A u \in 1..(t - 1) : state.tasks[u].pc # "queued"
    /\ Cardinality(RunningTasks(state)) < MaxWorkers

\* fetch_one without its cancellation check
ProbeIgnored(has_probe, probe) == FALSE

\* line 267 / 305: cancel_check and cancel_check()
ProbeSaysCancel(has_probe, probe) == has_probe /\ probe

\* lines 267-268: a worker starts fetch_one on the next task and asks the probe
StartedTask(task, cancelled) ==
    IF cancelled
    THEN [task EXCEPT !.pc = "done", !.outcome = "skipped", !.after_cancel = TRUE]
    ELSE [task EXCEPT !.pc = "checked"]

\* line 271: the call of get_kpi_history leaves the worker
RequestedTask(task) ==
    [task EXCEPT !.pc = "inflight", !.requests = task.requests + 1]

\* lines 272-285: the answer arrives and fetch_one returns
CompletedTask(fn, args, task, outcome, probe) ==
    [task EXCEPT !.pc = "done", !.outcome = outcome, !.after_cancel = probe,
                 !.result = fetch_one_result(fn, args, outcome)]

\* the results in the order in which the tasks ended
MapResultsAsCompleted(state) ==
    [k \in 1..Len(state.order) |-> state.tasks[state.order[k]].result]

\* line 287: list(executor.map(fetch_one, tasks)) yields the results in the
\* order of the tasks
MapResults(state) == [t \in 1..Len(state.tasks) |-> state.tasks[t].result]

RECURSIVE ConcatFrames(_, _)
\* lines 288-292: the frames that are not None, concatenated
ConcatFrames(results, t) ==
    IF t > Len(results) THEN <<>>
    ELSE (IF results[t].df THEN results[t].rows ELSE <<>>)
             \o ConcatFrames(results, t + 1)

AnyRaised(results) == \E t \in 1..Len(results) : results[t].raised

\* lines 286-292: the with block ends when every task is done; an exception of
\* a task is re-raised by the iteration of executor.map
ReturnedState(state, results) ==
    IF AnyRaised(results) THEN [state EXCEPT !.raised = TRUE]
    ELSE [state EXCEPT !.frame = ConcatFrames(results, 1)]

FetchStockIds == {<<1>>, <<1, 2>>}
FetchKpiIds == {<<10>>, <<10, 20>>}

FetchCalls ==
    {[fn |-> f, stock_ids |-> s, kpi_ids |-> k, tasks |-> FetchTasks(s, k), has_probe |-> p] :
        f \in {"fetch_kpi_data_for_stocks", "fetch_kpi_data_for_stocks_yearly"},
        s \in FetchStockIds, k \in FetchKpiIds, p \in BOOLEAN}

InitFetch ==
    /\ call \in FetchCalls
    /\ ret = FetchStart(Len(call.tasks))
    /\ fpc = "call"
    /\ PipelineIdle

FetchFrame == <<tree, kpi_filter_settings, stock_kpi_data, pc, i, final_stock_ids,
                passed_count, evaluated, reports, messages>>

\* the caller's probe starts returning True
ProbeTurnsTrue ==
    /\ fpc = "call"
    /\ call.has_probe
    /\ ~cancel_check
    /\ cancel_check' = TRUE
    /\ UNCHANGED <<call, ret, fpc, FetchFrame>>

StartTask ==
    /\ fpc = "call"
    /\ \E t \in 1..Len(ret.tasks) :
        /\ NextQueued(ret, t)
        /\ ret' = [ret EXCEPT !.tasks[t] =
                      StartedTask(ret.tasks[t], ProbeSaysCancel(call.has_probe, cancel_check)),
                    !.order = IF ProbeSaysCancel(call.has_probe, cancel_check)
                              THEN Append(ret.order, t) ELSE ret.order]
    /\ UNCHANGED <<call, fpc, FetchFrame, cancel_check>>

IssueRequest ==
    /\ fpc = "call"
    /\ \E t \in 1..Len(ret.tasks) :
        /\ ret.tasks[t].pc = "checked"
        /\ ret' = [ret EXCEPT !.tasks[t] = RequestedTask(ret.tasks[t])]
    /\ UNCHANGED <<call, fpc, FetchFrame, cancel_check>>

CompleteRequest ==
    /\ fpc = "call"
    /\ \E t \in 1..Len(ret.tasks), outcome \in ApiOutcomes :
        /\ ret.tasks[t].pc = "inflight"
        /\ ret' = [ret EXCEPT !.tasks[t] =
                      CompletedTask(call.fn, call.tasks[t], ret.tasks[t], outcome,
                                    ProbeSaysCancel(call.has_probe, cancel_check)),
                    !.order = Append(ret.order, t)]
    /\ UNCHANGED <<call, fpc, FetchFrame, cancel_check>>

ReturnFrame ==
    /\ fpc = "call"
    /\ \A t \in 1..Len(ret.tasks) : ret.tasks[t].pc = "done"
    /\ ret' = ReturnedState(ret, MapResults(ret))
    /\ fpc' = "return"
    /\ UNCHANGED <<call, FetchFrame, cancel_check>>

NextFetch == ProbeTurnsTrue \/ StartTask \/ IssueRequest \/ CompleteRequest \/ ReturnFrame

SpecFetch == InitFetch /\ [][NextFetch]_vars

\* the pool's threads keep running and get_kpi_history answers every request
FetchProgress == StartTask \/ IssueRequest \/ CompleteRequest \/ ReturnFrame

SpecFetchFair == InitFetch /\ [][NextFetch]_vars /\ WF_vars(FetchProgress)


(***************************************************************************)
(* Properties of the worker-pool fetch, checked under SpecFetch            *)
(***************************************************************************)
TaskIds == 1..Len(call.tasks)

RowsOf(t) == TaskRows(call.fn, call.tasks[t])

\* C21: an exception of one task's fetch never aborts the batch.  The call
\* returns a frame and raises nothing; the task whose fetch raised contributes
\* no rows; every task whose fetch answered with rows has them in the frame;
\* and unless the probe said cancel every task issued its request.
C21_FailedFetchIsLocal ==
    fpc = "return" =>
        /\ ~ret.raised
        /\ \A t \in TaskIds :
               /\ ret.tasks[t].outcome = "raise" => RowsOf(t) \notin Range(ret.frame)
               /\ ret.tasks[t].outcome = "rows" => RowsOf(t) \in Range(ret.frame)
               /\ ~cancel_check => ret.tasks[t].requests = 1

\* a call returned in which one fetch raised and a task started later fetched rows
C21_Witness ==
    /\ fpc = "return"
    /\ \E t, u \in TaskIds :
           /\ t < u
           /\ ret.tasks[t].outcome = "raise"
           /\ ret.tasks[u].outcome = "rows"
           /\ ret.frame # <<>>


Requests(state, t) == state.tasks[t].requests

\* C22, as claimed: once the probe returns True no task that has not yet issued
\* its API request issues one, under every interleaving of the workers.
C22_NoRequestAfterCancel ==
    [][(fpc = "call" /\ call.has_probe /\ cancel_check)
           => \A t \in TaskIds : Requests(ret', t) = Requests(ret, t)]_vars

\* C22, amended: once the probe returns True no task that has not yet made its
\* cancellation check issues a request (it ends without one); the only requests
\* issued afterwards are those of tasks that passed their check before, at most
\* one per worker; requests in flight are completed and the call returns.
C22_NoCheckPassesAfterCancel ==
    /\ [][(fpc = "call" /\ call.has_probe /\ cancel_check)
              => \A t \in TaskIds :
                     /\ ret.tasks[t].pc = "queued"
                            => (ret'.tasks[t].pc \in {"queued", "done"}
                                /\ Requests(ret', t) = 0)
                     /\ Requests(ret', t) > Requests(ret, t)
                            => ret.tasks[t].pc = "checked"
                     /\ ret.tasks[t].pc = "inflight"
                            => ret'.tasks[t].pc \in {"inflight", "done"}]_vars
    /\ [](cancel_check => Cardinality({t \in TaskIds : ret.tasks[t].pc = "checked"})
                              <= MaxWorkers)
    /\ <>(fpc = "return")

\* a cancelled call returned: one task was in flight at the signal and
\* completed, a later one ended without a request
C22_Witness ==
    /\ fpc = "return"
    /\ cancel_check
    /\ \E t, u \in TaskIds :
           /\ ret.tasks[t].requests = 1 /\ ret.tasks[t].after_cancel
           /\ ret.tasks[u].outcome = "skipped" /\ ret.tasks[u].requests = 0


\* C23, as claimed: the rows of a request that completes after the probe
\* turned True do not appear in the returned frame.
C23_LateResultsDiscarded ==
    fpc = "return" =>
        \A t \in TaskIds :
            (ret.tasks[t].requests = 1 /\ ret.tasks[t].after_cancel)
                => RowsOf(t) \notin Range(ret.frame)


\* position of x in the sequence ids (0 when absent)
PositionIn(ids, x) ==
    IF \E k \in 1..Len(ids) : ids[k] = x
    THEN CHOOSE k \in 1..Len(ids) : ids[k] = x /\ \A j \in 1..(k - 1) : ids[j] # x
    ELSE 0

\* rank of a row in the order "stocks in input order, KPIs in input order"
InputRank(row) ==
    (PositionIn(call.stock_ids, row.stock_id) - 1) * Len(call.kpi_ids)
        + PositionIn(call.kpi_ids, row.kpi_id)

\* C29: without a cancellation signal the returned frame is fixed by the
\* answers alone, whatever the order in which the fetches completed: it holds
\* the rows of exactly the tasks that were answered with rows, stocks in input
\* order and for each stock the KPIs in input order, and every task issued
\* exactly one request.
C29_FrameInTaskOrder ==
    (fpc = "return" /\ ~cancel_check) =>
        /\ Range(ret.frame) = {RowsOf(t) : t \in {u \in TaskIds : ret.tasks[u].outcome = "rows"}}
        /\ \A j, k \in 1..Len(ret.frame) :
               j < k => InputRank(ret.frame[j]) < InputRank(ret.frame[k])
        /\ \A t \in TaskIds : ret.tasks[t].requests = 1

\* a call returned two tasks' rows although the later task completed first
C29_Witness ==
    /\ fpc = "return"
    /\ ~cancel_check
    /\ Len(ret.frame) >= 2
    /\ \E j, k \in 1..Len(ret.order) :
           /\ j < k /\ ret.order[j] > ret.order[k]
           /\ ret.tasks[ret.order[j]].outcome = "rows"
           /\ ret.tasks[ret.order[k]].outcome = "rows"


(***************************************************************************)
(* Further properties of evaluate_kpi_filter, checked under SpecLeaf       *)
(***************************************************************************)
\* some adjacent pair of the rows goes from above zero to zero or below
\* (down = TRUE), or from below zero to zero or above
CrossesZero(rows, down) ==
    \E k \in 1..(Len(rows) - 1) :
        IF down THEN rows[k].kpiValue > 0 /\ rows[k + 1].kpiValue <= 0
        ELSE rows[k].kpiValue < 0 /\ rows[k + 1].kpiValue >= 0

\* C24: for a Trend leaf of kind Positive-to-Negative (Negative-to-Positive)
\* with m unset or not above 0 the verdict is True iff the series has its n
\* observations and some adjacent pair (a, b) of the n-window has a > 0 and
\* b <= 0 (a < 0 and b >= 0); otherwise it is False, so a window that rises and
\* then falls without crossing zero fails.
C24_ZeroCrossingWithoutM ==
    (/\ fpc = "return"
     /\ call.kpi_settings.trend_enabled
     /\ call.kpi_settings.trend_type \in {"Positive-to-Negative", "Negative-to-Positive"}
     /\ (call.kpi_settings.trend_m.none \/ call.kpi_settings.trend_m.val <= 0)
     /\ ~HasMissing(call.kpi_data.rows))
    => /\ ret.verdict \in {"True", "False"}
       /\ ret.verdict = "True" <=>
              /\ Len(call.kpi_data.rows) >= call.kpi_settings.trend_n.val
              /\ CrossesZero(Suffix(call.kpi_data.rows, call.kpi_settings.trend_n.val),
                             call.kpi_settings.trend_type = "Positive-to-Negative")

\* [-1, 0] with n = 2 and m = 0 passed Negative-to-Positive: -1 < 0 and 0 >= 0
C24_Witness ==
    /\ fpc = "return"
    /\ ret.engine = "filters"
    /\ call.kpi_settings.trend_type = "Negative-to-Positive"
    /\ call.kpi_settings.trend_n = Some(2)
    /\ call.kpi_settings.trend_m = Some(0)
    /\ call.kpi_data = Series(<<0 - 1, 0>>)
    /\ ret.verdict = "True"


(***************************************************************************)
(* Further properties of the screening run, checked under Spec             *)
(***************************************************************************)
\* stock positions (1-based) at which a progress report is due
ReportDue(p) == (p - 1) % ProgressEvery = 0 \/ p = NumStocks

PassedAmong(p) == Cardinality({k \in 1..p : evaluated[k].result = "True"})

ProgressAsClaimed ==
    /\ \A p \in 1..i : ReportDue(p) => \E k \in 1..Len(reports) : reports[k].processed = p
    /\ \A k \in 1..Len(reports) :
           /\ reports[k].processed \in 1..i
           /\ ReportDue(reports[k].processed)
           /\ reports[k].passed = PassedAmong(reports[k].processed)

\* C25, as claimed: during the pass a report is issued at stock positions 1,
\* 101, 201, ... and at the last stock; each report's processed count is the
\* number of stocks handled so far and its passed count the number of those
\* that passed; also when the evaluation of some stock raises an error.
C25_ProgressCadence ==
    pc \in {"loop", "done"} => ProgressAsClaimed

\* C25 for the passes in which no evaluation raised
C25_ProgressCadence_noError ==
    (pc \in {"loop", "done"} /\ \A k \in 1..Len(evaluated) : evaluated[k].result # "Raise")
        => ProgressAsClaimed


(***************************************************************************)
(* One Relative method on its way through a screening run: the method      *)
(* configuration becomes a flat-list entry (convert_groups_to_old_format), *)
(* the entry becomes the leaf's settings (main(), ui_main.py lines         *)
(* 125-147), the settings are handed to evaluate_kpi_filter.               *)
(***************************************************************************)
RelativeMethodConfig(op, v, n) ==
    [MethodConfig("Relative") EXCEPT !.rel_operator = op, !.rel_value = Some(v),
                                     !.duration_type = LastN, !.last_n = Some(n)]

RelativeRunCalls ==
    {[fn |-> "relative_leaf", method_config |-> RelativeMethodConfig(op, v, n),
      kpi_data |-> Series(vals)] :
        op \in {">", ">=", "<", "<=", "="}, v \in {0, 50}, n \in 1..MaxWindow,
        vals \in ValueSeries}

\* the leaf's settings and verdict, given its flat-list entry
LeafOfRun(kf, kpi_data) ==
    [kpi_filter |-> kf,
     kpi_settings |-> kpi_filter_setting(kf),
     verdict |-> evaluate_kpi_filter(kpi_filter_setting(kf), kpi_data)]

NoLeaf == [kpi_filter |-> Absent, kpi_settings |-> Absent, verdict |-> "pending"]

InitRelativeRun ==
    /\ call \in RelativeRunCalls
    /\ ret = NoLeaf
    /\ fpc = "call"
    /\ PipelineIdle

\* the method is the only one of KPI "A" in group 0
ScreenRelativeLeaf ==
    /\ fpc = "call"
    /\ call.fn = "relative_leaf"
    /\ ret' = LeafOfRun(old_filter("A", 0, "AND", 0, Absent, call.method_config),
                        call.kpi_data)
    /\ fpc' = "return"
    /\ UNCHANGED <<call, pipeVars>>

NextRelativeRun == ScreenRelativeLeaf

SpecRelativeRun == InitRelativeRun /\ [][NextRelativeRun]_vars

\* C26, as claimed: the operator the evaluator applies to the percent changes
\* of a Relative leaf of a screening run is the rel_operator configured for the
\* method: the verdict of the run is the verdict of evaluate_kpi_filter under
\* the configured operator.
C26_ConfiguredRelOperatorApplied ==
    fpc = "return" =>
        /\ ret.kpi_filter.rel_operator = call.method_config.rel_operator
        /\ ret.verdict = evaluate_kpi_filter(
                             WithRelOperator(ret.kpi_settings, call.method_config.rel_operator),
                             call.kpi_data)

\* C26 for the methods configured with '>='
C26_ConfiguredRelOperatorApplied_default ==
    (fpc = "return" /\ call.method_config.rel_operator = ">=") =>
        ret.verdict = evaluate_kpi_filter(
                          WithRelOperator(ret.kpi_settings, call.method_config.rel_operator),
                          call.kpi_data)


ComparisonOperators == {">", ">=", "<", "<=", "="}

TrendKinds == {"Positive", "Negative", "Positive-to-Negative", "Negative-to-Positive"}

\* the leaf has a comparison operator or a trend kind that is not a recognised one
HasUnrecognisedParameter(kpi_settings) ==
    \/ kpi_settings.abs_enabled /\ kpi_settings.abs_operator \notin ComparisonOperators
    \/ /\ kpi_settings.rel_enabled
       /\ kpi_settings.rel_operator \notin ComparisonOperators \cup {Absent}
    \/ kpi_settings.trend_enabled /\ kpi_settings.trend_type \notin TrendKinds

\* C27, as claimed: a leaf whose comparison operator (Absolute or Relative) is
\* not a recognised one, or whose trend kind is missing, None or not one of
\* the four kinds, never evaluates to True, for any window.
C27_UnrecognisedParametersFailClosed ==
    (fpc = "return" /\ ret.engine = "filters" /\ HasUnrecognisedParameter(call.kpi_settings))
        => ret.verdict # "True"

\* C27 for Absolute leaves
C27_UnrecognisedParametersFailClosed_absolute ==
    (/\ fpc = "return" /\ ret.engine = "filters"
     /\ call.kpi_settings.abs_enabled
     /\ call.kpi_settings.abs_operator \notin ComparisonOperators)
        => ret.verdict # "True"


\* the verdict of the tree for a stock: a function of the tree, the leaf
\* settings and the stock's own KPI table
VerdictOf(stock_id) ==
    evaluate_filter_tree(tree, kpi_filter_settings, stock_kpi_data[stock_id])

Passes(stock_id) == VerdictOf(stock_id) = "True"

\* the pass over the stocks is under way or over
Filtering == pc = "loop" \/ (pc = "done" /\ Len(evaluated) = NumStocks)

\* C28: in a run with a valid tree every stock of the universe is evaluated
\* exactly once, in universe order; at every point of the pass the pass list is
\* the ordered subsequence of the stocks processed so far whose verdict is True;
\* the verdict of a stock is that of the tree on its own KPI table, so the final
\* pass set is the set of the passing stocks whatever the visiting order.
C28_PassListIsVerdictSubsequence ==
    Filtering =>
        /\ Len(evaluated) = i
        /\ \A k \in 1..i :
               /\ evaluated[k].stock = StockIds[k]
               /\ evaluated[k].result = VerdictOf(StockIds[k])
        /\ final_stock_ids = SelectSeq(SubSeq(StockIds, 1, i), Passes)
        /\ passed_count = Len(final_stock_ids)
        /\ pc = "done" =>
               Range(final_stock_ids) = {s \in Range(StockIds) : Passes(s)}

\* a finished pass in which the first stock failed and the last one passed
C28_Witness ==
    /\ pc = "done"
    /\ Len(evaluated) = NumStocks
    /\ evaluated[1].result = "False"
    /\ final_stock_ids = <<StockIds[NumStocks]>>


(***************************************************************************)
(* fetch_kpi_data_for_calculation, borsdata/filters/kpi_logic.py: the      *)
(* all-quarterly (lines 217-246) and all-yearly (lines 248-276) fast       *)
(* paths.  Names are modelled in their stripped, lower-case form.          *)
(***************************************************************************)
\* KPI short names a run can request; "X" has no entry in the KPI metadata
RequestedNames == {"A", "B", "X"}

\* kpi_short_to_borsdata.get(k, k)
BorsdataName(kpi_name) ==
    IF kpi_name = "A" THEN "alpha" ELSE IF kpi_name = "B" THEN "beta" ELSE kpi_name

\* df_kpis: rows of the KPI metadata
KpiMetadata ==
    <<[nameEn |-> "alpha", nameSv |-> "alfa", kpiId |-> 10],
      [nameEn |-> "beta", nameSv |-> "beta", kpiId |-> 20]>>

MetadataMatches(df_kpis, target) ==
    {k \in 1..Len(df_kpis) : target = df_kpis[k].nameEn \/ target = df_kpis[k].nameSv}

\* lines 223-236 / 254-267: kpiId of the first metadata row whose English or
\* Swedish name is the target, None when the loop ends without a break
ResolveKpiId(df_kpis, target) ==
    IF MetadataMatches(df_kpis, target) = {} THEN None_
    ELSE Some(df_kpis[CHOOSE k \in MetadataMatches(df_kpis, target) :
                          \A j \in MetadataMatches(df_kpis, target) : k <= j].kpiId)

RECURSIVE ResolvedKpiIds(_, _, _)
\* lines 219-238 / 250-269: kpi_ids, the ids of the names that resolve
ResolvedKpiIds(df_kpis, kpi_names, k) ==
    IF k > Len(kpi_names) THEN <<>>
    ELSE (IF ResolveKpiId(df_kpis, BorsdataName(kpi_names[k])).none THEN <<>>
          ELSE <<ResolveKpiId(df_kpis, BorsdataName(kpi_names[k])).val>>)
             \o ResolvedKpiIds(df_kpis, kpi_names, k + 1)

\* kpi_df[kpi_df['kpi_id'] == kpi_id]
RowsOfKpi(kpi_df, kpi_id) == SelectRows(kpi_df, [k \in 1..Len(kpi_df) |-> kpi_df[k].kpi_id = kpi_id])

NoKpiData == [name \in RequestedNames |-> [present |-> FALSE, rows |-> <<>>]]

RECURSIVE ZipIntoKpiData(_, _, _, _, _)
\* lines 242-245 / 273-275: for kpi_id, kpi_name in zip(kpi_ids, kpi_names)
ZipIntoKpiData(kpi_data, kpi_ids, kpi_names, kpi_df, k) ==
    IF k > Len(kpi_ids) \/ k > Len(kpi_names) THEN kpi_data
    ELSE ZipIntoKpiData([kpi_data EXCEPT ![kpi_names[k]] =
                            [present |-> TRUE, rows |-> RowsOfKpi(kpi_df, kpi_ids[k])]],
                        kpi_ids, kpi_names, kpi_df, k + 1)

\* the frame the worker-pool fetch returns for the ids: one row per id that
\* has data, in the order of the ids
FetchedFrame(kpi_ids, with_data, report_type) ==
    SelectRows([k \in 1..Len(kpi_ids) |->
                   [stock_id |-> 1, kpi_id |-> kpi_ids[k], report_type |-> report_type]],
               [k \in 1..Len(kpi_ids) |-> kpi_ids[k] \in with_data])

\* lines 217-246 (Quarterly) and 248-276 (Yearly)
fetch_kpi_data_for_calculation(kpi_names, frequency, df_kpis, with_data) ==
    ZipIntoKpiData(NoKpiData, ResolvedKpiIds(df_kpis, kpi_names, 1), kpi_names,
                   FetchedFrame(ResolvedKpiIds(df_kpis, kpi_names, 1), with_data,
                                IF frequency = "Quarterly" THEN "quarter" ELSE "year"),
                   1)

\* lists of distinct requested names
RequestedNameLists ==
    {s \in UNION {[1..n -> RequestedNames] : n \in 1..Cardinality(RequestedNames)} :
        \A j, k \in 1..Len(s) : j # k => s[j] # s[k]}

CalculationCalls ==
    {[fn |-> "fetch_kpi_data_for_calculation", kpi_names |-> s, frequency |-> f,
      with_data |-> d] :
        s \in RequestedNameLists, f \in {"Quarterly", "Yearly"}, d \in SUBSET {10, 20}}

InitCalculation ==
    /\ call \in CalculationCalls
    /\ ret = [kpi_data |-> NoKpiData, kpi_ids |-> <<>>]
    /\ fpc = "call"
    /\ PipelineIdle

CallFetchKpiDataForCalculation ==
    /\ fpc = "call"
    /\ call.fn = "fetch_kpi_data_for_calculation"
    /\ ret' = [kpi_data |-> fetch_kpi_data_for_calculation(call.kpi_names, call.frequency,
                                                           KpiMetadata, call.with_data),
               kpi_ids |-> ResolvedKpiIds(KpiMetadata, call.kpi_names, 1)]
    /\ fpc' = "return"
    /\ UNCHANGED <<call, pipeVars>>

NextCalculation == CallFetchKpiDataForCalculation

SpecCalculation == InitCalculation /\ [][NextCalculation]_vars

\* C30, as claimed: in the all-quarterly and all-yearly fast paths every name
\* present in the returned mapping is keyed to the rows of its own KPI id, for
\* every list of requested names, also when some name resolves to no KPI id:
\* such a name has no data and never receives another KPI's rows.
C30_NamesKeyedToOwnRows ==
    fpc = "return" =>
        \A name \in RequestedNames :
            ret.kpi_data[name].present =>
                \A k \in 1..Len(ret.kpi_data[name].rows) :
                    /\ ~ResolveKpiId(KpiMetadata, BorsdataName(name)).none
                    /\ ret.kpi_data[name].rows[k].kpi_id
                           = ResolveKpiId(KpiMetadata, BorsdataName(name)).val

\* C30 for the lists in which every requested name resolves to a KPI id
C30_NamesKeyedToOwnRows_allResolve ==
    (fpc = "return" /\ Len(ret.kpi_ids) = Len(call.kpi_names)) =>
        \A name \in RequestedNames :
            ret.kpi_data[name].present =>
                \A k \in 1..Len(ret.kpi_data[name].rows) :
                    ret.kpi_data[name].rows[k].kpi_id
                        = ResolveKpiId(KpiMetadata, BorsdataName(name)).val

====
